---- MODULE Spec2Model ----
(***************************************************************************)
(* Model of the data-access layer of the event platform backend:           *)
(*   - the FileStore (server/database/db.js): whole-collection JSON files  *)
(*     read and rewritten by every operation;                              *)
(*   - the finance routes (bank accounts, payouts) with the field-level    *)
(*     encryption and the country validation matrix.                       *)
(*                                                                         *)
(* Strings are sequences of one-character strings, "" is <<>>.             *)
(* JavaScript objects are functions from key names to values; an absent    *)
(* key is a key outside the DOMAIN.                                        *)
(***************************************************************************)
EXTENDS Integers, Sequences, FiniteSets, TLC

\* ------------------------------------------------------------------------
\* Bounds of the model
\* ------------------------------------------------------------------------
\* number of store calls that may be in flight at the same time
NumProcs == 2
\* number of createUser/updateUser calls issued in one behaviour
MaxCalls == 3
\* number of top-level keys in one updateUser patch
MaxPatchKeys == 1

\* ------------------------------------------------------------------------
\* Generic helpers: JavaScript objects and arrays
\* ------------------------------------------------------------------------
\* { ...r, ...p }: shallow merge, keys of p win
Merge(r, p) ==
  [k \in (DOMAIN r) \cup (DOMAIN p) |-> IF k \in DOMAIN p THEN p[k] ELSE r[k]]

\* const { k, ...rest } = r
Without(r, keys) == [k \in (DOMAIN r) \ keys |-> r[k]]

\* array.findIndex(pred): first index satisfying P, 0 when none (JS: -1)
FindIndex(arr, P(_)) ==
  IF \E i \in 1..Len(arr) : P(arr[i])
  THEN CHOOSE i \in 1..Len(arr) : P(arr[i]) /\ \A j \in 1..(i-1) : ~P(arr[j])
  ELSE 0

\* ------------------------------------------------------------------------
\* Characters
\* ------------------------------------------------------------------------
\* the printable ASCII characters in code order, the space is 32; the double
\* quote, the backslash and the back quote are written by name
AsciiChars ==
  << " ", "!", "dquote", "#", "$", "%", "&", "'", "(", ")", "*", "+", ",", "-",
     ".", "/", "0", "1", "2", "3", "4", "5", "6", "7", "8", "9", ":", ";",
     "<", "=", ">", "?", "@", "A", "B", "C", "D", "E", "F", "G", "H", "I",
     "J", "K", "L", "M", "N", "O", "P", "Q", "R", "S", "T", "U", "V", "W",
     "X", "Y", "Z", "[", "bslash", "]", "^", "_", "bquote", "a", "b", "c", "d", "e",
     "f", "g", "h", "i", "j", "k", "l", "m", "n", "o", "p", "q", "r", "s",
     "t", "u", "v", "w", "x", "y", "z", "{", "|", "}", "~" >>

FirstAsciiCode == 32

AsciiCharSet == { AsciiChars[i] : i \in 1..Len(AsciiChars) }

CodeTable ==
  [c \in AsciiCharSet |->
     FirstAsciiCode - 1 + CHOOSE i \in 1..Len(AsciiChars) : AsciiChars[i] = c]

\* utf8 encoding of one (ASCII) character and back
CodeOf(c) == CodeTable[c]
CharOf(b) == AsciiChars[b - FirstAsciiCode + 1]
IsAsciiCode(b) == b >= FirstAsciiCode /\ b < FirstAsciiCode + Len(AsciiChars)

\* Characters outside ASCII that the model knows, written by code point, with
\* their utf8 encodings. U+D800 is an unpaired surrogate code unit: a
\* JavaScript string may hold it, utf8 cannot, and the encoder writes the
\* replacement character U+FFFD in its place.
LoneSurrogate   == "U+D800"
ReplacementChar == "U+FFFD"
WideChars ==
  { [ ch |-> "U+00E9", bytes |-> << 195, 169 >> ],
    [ ch |-> "U+20AC", bytes |-> << 226, 130, 172 >> ],
    [ ch |-> ReplacementChar, bytes |-> << 239, 191, 189 >> ] }

IsPrefix(p, s) == Len(p) <= Len(s) /\ SubSeq(s, 1, Len(p)) = p

\* utf8 encoding of one character
Utf8Of(c) ==
  IF c \in AsciiCharSet THEN << CodeOf(c) >>
  ELSE LET d == IF c = LoneSurrogate THEN ReplacementChar ELSE c
       IN (CHOOSE w \in WideChars : w.ch = d).bytes

\* Buffer.from(text, 'utf8'), the input encoding of cipher.update
RECURSIVE Utf8Encode(_)
Utf8Encode(text) ==
  IF text = << >> THEN << >> ELSE Utf8Of(Head(text)) \o Utf8Encode(Tail(text))

\* buffer.toString('utf8'), the output encoding of decipher.update/final:
\* a control byte decodes to a control character (written "ctl"), a byte
\* that starts no encoding known here decodes to the replacement character
RECURSIVE Utf8Decode(_)
Utf8Decode(bytes) ==
  IF bytes = << >> THEN << >>
  ELSE LET b == Head(bytes) IN
       IF IsAsciiCode(b) THEN << CharOf(b) >> \o Utf8Decode(Tail(bytes))
       ELSE IF b < 128 THEN << "ctl" >> \o Utf8Decode(Tail(bytes))
       ELSE IF \E w \in WideChars : IsPrefix(w.bytes, bytes)
       THEN LET w == CHOOSE w \in WideChars : IsPrefix(w.bytes, bytes)
            IN << w.ch >> \o Utf8Decode(SubSeq(bytes, Len(w.bytes) + 1, Len(bytes)))
       ELSE << ReplacementChar >> \o Utf8Decode(Tail(bytes))

\* ------------------------------------------------------------------------
\* Users: input domains
\* ------------------------------------------------------------------------
Emails == { <<"a">>, <<"A">>, <<"b">> }
Names  == { <<"n">> }
NewNames == { <<"m">> }

\* String.prototype.toLowerCase, character by character
LowerTable ==
  [c \in AsciiCharSet |->
     IF CodeOf(c) >= CodeOf("A") /\ CodeOf(c) <= CodeOf("Z")
     THEN CharOf(CodeOf(c) + (CodeOf("a") - CodeOf("A")))
     ELSE c]

LowerChar(c) == IF c \in AsciiCharSet THEN LowerTable[c] ELSE c

toLowerCase(s) == [i \in 1..Len(s) |-> LowerChar(s[i])]

Passwords == { <<"p">> }

\* the object passed to createUser by POST /signup
UserDrafts == [ email : Emails, firstName : Names, password : Passwords ]

\* patches of updateUser: any subset of the top-level keys below
MkUserPatch(pe, e, pf, f, pa, a) ==
  [k \in ((IF pe THEN {"email"} ELSE {}) \cup
          (IF pf THEN {"firstName"} ELSE {}) \cup
          (IF pa THEN {"isActive"} ELSE {})) |->
     CASE k = "email"     -> e
       [] k = "firstName" -> f
       [] k = "isActive"  -> a]

UserPatches ==
  { u \in { MkUserPatch(pe, e, pf, f, pa, a) :
             pe \in BOOLEAN, e \in Emails, pf \in BOOLEAN, f \in NewNames,
             pa \in BOOLEAN, a \in BOOLEAN } :
      Cardinality(DOMAIN u) \in 1..MaxPatchKeys }

Procs == 1..NumProcs

VARIABLES
  usersFile,    \* content of users.json: the array of user records
  nextUserId,   \* source of fresh ids (generateId)
  pc,           \* per call slot: "idle", "saving", "done"
  call,         \* per call slot: the operation and its arguments
  snap,         \* per call slot: the array returned by getUsers
  pending,      \* per call slot: the array handed to saveUsers
  ret,          \* per call slot: the value the call returned
  ncalls,       \* number of calls issued so far
  created,      \* history: ids for which createUser returned success
  lastWriter,   \* history: the call slot whose saveUsers wrote last (0: none)
  userNow,      \* the clock read by new Date()
  prevUsers     \* users.json before the last whole call

userVars == << usersFile, nextUserId, pc, call, snap, pending, ret, ncalls,
               created, lastWriter, userNow, prevUsers >>

\* ------------------------------------------------------------------------
\* FileStore: users
\* ------------------------------------------------------------------------
NoCall == [ op |-> "none" ]
NoRet  == [ success |-> FALSE, error |-> "none" ]

DuplicateEmailError == "User with this email already exists"
UserNotFoundError   == "User not found"

\* variant: the duplicate check looks at active users only
ExistingUser_ActiveOnly(users, email) ==
  FindIndex(users, LAMBDA u : u.isActive /\
                              toLowerCase(u.email) = toLowerCase(email))

\* users.find(user => user.email.toLowerCase() === userData.email.toLowerCase())
ExistingUser(users, email) ==
  FindIndex(users, LAMBDA u : toLowerCase(u.email) = toLowerCase(email))

\* the record built by createUser
NewUser(id, userData, now) ==
  [ id        |-> id,
    email     |-> toLowerCase(userData.email),
    firstName |-> userData.firstName,
    password  |-> userData.password,
    isActive  |-> TRUE,
    createdAt |-> now,
    updatedAt |-> now,
    profile   |-> [ bio |-> << >>, website |-> << >> ] ]

\* variant: spread order swapped, the stored keys win over the patch
PatchedUsers_StoredWins(users, userIndex, updates, now) ==
  [users EXCEPT ![userIndex] =
     Merge(Merge(updates, users[userIndex]), [ updatedAt |-> now ])]

\* variant: updatedAt is spread before the patch, the stamp of a patch wins
PatchedUsers_PatchStampWins(users, userIndex, updates, now) ==
  [users EXCEPT ![userIndex] =
     Merge(Merge(users[userIndex], [ updatedAt |-> now ]), updates)]

\* users[userIndex] = { ...users[userIndex], ...updates, updatedAt }
PatchedUsers(users, userIndex, updates, now) ==
  [users EXCEPT ![userIndex] =
     Merge(Merge(users[userIndex], updates), [ updatedAt |-> now ])]

\* variant: createUser purges the deactivated users when it saves
PushedUsers_ActiveOnly(users, newUser) ==
  Append(SelectSeq(users, LAMBDA u : u.isActive), newUser)

\* users.push(newUser)
PushedUsers(users, newUser) == Append(users, newUser)

UserIds(users) == { users[i].id : i \in 1..Len(users) }

\* createUser up to its call of saveUsers: getUsers, the duplicate check,
\* the push of the new record
CreateUserRead(p, userData) ==
  /\ pc[p] = "idle"
  /\ ncalls < MaxCalls
  /\ ncalls' = ncalls + 1
  /\ call' = [call EXCEPT ![p] = [ op |-> "createUser", userData |-> userData,
                                   id |-> nextUserId, at |-> userNow ]]
  /\ userNow' = userNow + 1
  /\ snap' = [snap EXCEPT ![p] = usersFile]
  /\ IF ExistingUser(usersFile, userData.email) # 0
     THEN /\ pc' = [pc EXCEPT ![p] = "done"]
          /\ ret' = [ret EXCEPT ![p] =
                       [ success |-> FALSE, error |-> DuplicateEmailError ]]
          /\ UNCHANGED << pending, nextUserId >>
     ELSE /\ pc' = [pc EXCEPT ![p] = "saving"]
          /\ pending' = [pending EXCEPT ![p] =
                           PushedUsers(usersFile,
                                       NewUser(nextUserId, userData, userNow))]
          /\ nextUserId' = nextUserId + 1
          /\ UNCHANGED ret
  /\ UNCHANGED << usersFile, created, lastWriter, prevUsers >>

\* updateUser up to its call of saveUsers: getUsers, findIndex, the merge
UpdateUserRead(p, id, updates) ==
  /\ pc[p] = "idle"
  /\ ncalls < MaxCalls
  /\ ncalls' = ncalls + 1
  /\ call' = [call EXCEPT ![p] = [ op |-> "updateUser", id |-> id,
                                   updates |-> updates, at |-> userNow ]]
  /\ userNow' = userNow + 1
  /\ snap' = [snap EXCEPT ![p] = usersFile]
  /\ LET userIndex == FindIndex(usersFile, LAMBDA u : u.id = id) IN
     IF userIndex = 0
     THEN /\ pc' = [pc EXCEPT ![p] = "done"]
          /\ ret' = [ret EXCEPT ![p] =
                       [ success |-> FALSE, error |-> UserNotFoundError ]]
          /\ UNCHANGED pending
     ELSE /\ pc' = [pc EXCEPT ![p] = "saving"]
          /\ pending' = [pending EXCEPT ![p] =
                           PatchedUsers(usersFile, userIndex, updates, userNow)]
          /\ UNCHANGED ret
  /\ UNCHANGED << usersFile, nextUserId, created, lastWriter, prevUsers >>

\* saveUsers (fs.writeJson overwrites the whole file) and the return
SaveUsers(p) ==
  /\ pc[p] = "saving"
  /\ usersFile' = pending[p]
  /\ lastWriter' = p
  /\ pc' = [pc EXCEPT ![p] = "done"]
  /\ IF call[p].op = "createUser"
     THEN /\ ret' = [ret EXCEPT ![p] =
                       [ success |-> TRUE, error |-> "",
                         user |-> Without(pending[p][Len(pending[p])],
                                          { "password" }) ]]
          /\ created' = created \cup { call[p].id }
     ELSE /\ ret' = [ret EXCEPT ![p] =
                       [ success |-> TRUE, error |-> "",
                         user |-> Without(pending[p][FindIndex(pending[p],
                                            LAMBDA u : u.id = call[p].id)],
                                          { "password" }) ]]
          /\ UNCHANGED created
  /\ UNCHANGED << nextUserId, call, snap, pending, ncalls, userNow, prevUsers >>

\* the caller takes the result; the slot is free for the next call
Return(p) ==
  /\ pc[p] = "done"
  /\ ncalls < MaxCalls
  /\ pc' = [pc EXCEPT ![p] = "idle"]
  /\ call' = [call EXCEPT ![p] = NoCall]
  /\ snap' = [snap EXCEPT ![p] = << >>]
  /\ pending' = [pending EXCEPT ![p] = << >>]
  /\ ret' = [ret EXCEPT ![p] = NoRet]
  /\ lastWriter' = IF lastWriter = p THEN 0 ELSE lastWriter
  /\ UNCHANGED << usersFile, nextUserId, ncalls, created, userNow, prevUsers >>

UsersNext ==
  \/ \E p \in Procs, d \in UserDrafts : CreateUserRead(p, d)
  \/ \E p \in Procs, id \in 1..nextUserId, u \in UserPatches :
        UpdateUserRead(p, id, u)
  \/ \E p \in Procs : SaveUsers(p)
  \/ \E p \in Procs : Return(p)


\* --- whole calls, one after the other, with the outcome of the file I/O ---
\* number of whole createUser/updateUser calls in one behaviour
MaxUserSeqCalls == 3
\* the same, when reads and writes of users.json may fail
MaxUserIOCalls == 3

SaveUserFailedError   == "Failed to save user"
UpdateUserFailedError == "Failed to update user"

\* getUsers(): the parsed file, or [] when reading it failed
getUsers(readOk) == IF readOk THEN usersFile ELSE << >>

\* createUser(userData) on the array getUsers returned: the array it saves
\* (when write) and the value it returns once the save succeeded
createUser(users, userData, id, now) ==
  IF ExistingUser(users, userData.email) # 0
  THEN [ write |-> FALSE, file |-> users,
         ret |-> [ success |-> FALSE, error |-> DuplicateEmailError ] ]
  ELSE LET newUser == NewUser(id, userData, now) IN
       [ write |-> TRUE, file |-> PushedUsers(users, newUser),
         ret |-> [ success |-> TRUE, error |-> "",
                   user |-> Without(newUser, { "password" }) ] ]

\* updateUser(id, updates) on the array getUsers returned
updateUser(users, id, updates, now) ==
  LET userIndex == FindIndex(users, LAMBDA u : u.id = id) IN
  IF userIndex = 0
  THEN [ write |-> FALSE, file |-> users,
         ret |-> [ success |-> FALSE, error |-> UserNotFoundError ] ]
  ELSE LET saved == PatchedUsers(users, userIndex, updates, now) IN
       [ write |-> TRUE, file |-> saved,
         ret |-> [ success |-> TRUE, error |-> "",
                   user |-> Without(saved[userIndex], { "password" }) ] ]

\* patches of the whole calls: a nested object that lacks a stored nested
\* key, an updatedAt supplied by the caller and a new password are among them
MkSeqPatch(keys, a) ==
  [k \in keys |->
     CASE k = "firstName" -> << "m" >>
       [] k = "isActive"  -> a
       [] k = "profile"   -> [ bio |-> << "x" >> ]
       [] k = "password"  -> << "q" >>
       [] k = "updatedAt" -> 0]

UserSeqPatches ==
  { MkSeqPatch(keys, a) :
      keys \in { K \in SUBSET { "firstName", "isActive", "profile", "password",
                                "updatedAt" } :
                   Cardinality(K) \in 1..(MaxPatchKeys + 1) },
      a \in BOOLEAN }

\* a whole call in slot 1: c the call, users what getUsers returned, r the
\* result computed from it, failed the error returned when the save failed
UserCallDone(c, users, r, writeOk, failed) ==
  /\ \A p \in Procs : pc[p] # "saving"
  /\ pc' = [pc EXCEPT ![1] = "done"]
  /\ call' = [call EXCEPT ![1] = c]
  /\ snap' = [snap EXCEPT ![1] = users]
  /\ pending' = [pending EXCEPT ![1] = r.file]
  /\ ret' = [ret EXCEPT ![1] =
               IF r.write /\ ~writeOk
               THEN [ success |-> FALSE, error |-> failed ] ELSE r.ret]
  /\ prevUsers' = usersFile
  /\ usersFile' = IF r.write /\ writeOk THEN r.file ELSE usersFile
  /\ lastWriter' = IF r.write /\ writeOk THEN 1 ELSE lastWriter
  /\ ncalls' = ncalls + 1
  /\ userNow' = userNow + 1

CreateUser(userData, readOk, writeOk) ==
  LET users == getUsers(readOk)
      r     == createUser(users, userData, nextUserId, userNow)
  IN /\ UserCallDone([ op |-> "createUser", userData |-> userData,
                       id |-> nextUserId, at |-> userNow, readOk |-> readOk,
                       writeOk |-> writeOk ], users, r, writeOk,
                     SaveUserFailedError)
     /\ nextUserId' = IF r.write THEN nextUserId + 1 ELSE nextUserId
     /\ created' = IF r.write /\ writeOk THEN created \cup { nextUserId }
                   ELSE created

UpdateUser(id, updates, readOk, writeOk) ==
  LET users == getUsers(readOk)
      r     == updateUser(users, id, updates, userNow)
  IN /\ UserCallDone([ op |-> "updateUser", id |-> id, updates |-> updates,
                       at |-> userNow, readOk |-> readOk,
                       writeOk |-> writeOk ], users, r, writeOk,
                     UpdateUserFailedError)
     /\ UNCHANGED << nextUserId, created >>

UsersSeqNext ==
  /\ ncalls < MaxUserSeqCalls
  /\ \/ \E d \in UserDrafts : CreateUser(d, TRUE, TRUE)
     \/ \E id \in 1..nextUserId, u \in UserSeqPatches :
           UpdateUser(id, u, TRUE, TRUE)

UsersIONext ==
  /\ ncalls < MaxUserIOCalls
  /\ \E readOk \in BOOLEAN, writeOk \in BOOLEAN :
        \/ \E d \in UserDrafts : CreateUser(d, readOk, writeOk)
        \/ \E id \in 1..nextUserId, u \in UserPatches :
              UpdateUser(id, u, readOk, writeOk)

\* ------------------------------------------------------------------------
\* FileStore: bank accounts and payouts
\* ------------------------------------------------------------------------
\* number of store calls on bank accounts and payouts in one behaviour
MaxBankCalls == 5
\* number of store calls in one behaviour of the payout specification
MaxPayoutCalls == 3

UserNames == { "u1", "u2" }

\* the mock orders of getUserOrders: two completed orders
OrderTotalOne == 5000
OrderTotalTwo == 1000
MinimumPayout == 25

\* amounts asked for: below the minimum, the minimum, the whole balance,
\* more than the balance
Amounts == { MinimumPayout - 1, MinimumPayout,
             OrderTotalOne + OrderTotalTwo, OrderTotalOne + OrderTotalTwo + 1 }

VARIABLES
  bankAccountsFile,  \* content of bankAccounts.json
  payoutsFile,       \* content of payouts.json
  nextBankId,        \* source of fresh bank-account and payout ids
  bankCall,          \* the last store call and its arguments
  bankRet,           \* what the last store call returned
  prevBank,          \* history: bankAccounts.json before the last call
  prevPayouts,       \* history: payouts.json before the last call
  nbank,             \* number of calls so far
  bankNow            \* the clock read by new Date() in the bank-account calls

VARIABLES
  req,    \* finance routes: the last request handled
  resp,   \* finance routes: the response sent for it
  nreq    \* finance routes: number of requests so far

routeVars == << req, resp, nreq >>

bankVars == << bankAccountsFile, payoutsFile, nextBankId, bankCall, bankRet,
               prevBank, prevPayouts, nbank, bankNow >>


BankNotFoundError       == "Bank account not found"
InsufficientBalanceError == "Insufficient balance"
BelowMinimumError       == "Minimum payout amount is $25"
InvalidAccountError     == "Invalid bank account"

\* JavaScript truthiness of obj[key] for a boolean-valued key
Truthy(obj, key) == key \in DOMAIN obj /\ obj[key]

\* obj[key] for a string-valued key, "" when the key is absent
StrOf(obj, key) == IF key \in DOMAIN obj THEN obj[key] ELSE << >>

\* accounts.forEach(account => account.isPrimary = value) on the accounts
\* selected by Sel
SetPrimaryWhere(bankAccounts, Sel(_), Val(_)) ==
  [i \in 1..Len(bankAccounts) |->
     IF Sel(bankAccounts[i])
     THEN Merge(bankAccounts[i], [isPrimary |-> Val(bankAccounts[i])])
     ELSE bankAccounts[i]]

\* getUserBankAccounts
getUserBankAccounts(bankAccounts, userId) ==
  SelectSeq(bankAccounts, LAMBDA a : a.userId = userId /\ Truthy(a, "isActive"))

\* getBankAccountById: index of the first record with this id, 0 when none
getBankAccountById(bankAccounts, id) ==
  FindIndex(bankAccounts, LAMBDA a : a.id = id)

\* createBankAccount: the array it saves
createBankAccount(bankAccounts, bankAccountData) ==
  LET demoted ==
        IF Truthy(bankAccountData, "isPrimary")
        THEN SetPrimaryWhere(bankAccounts,
               LAMBDA a : a.userId = bankAccountData.userId /\ Truthy(a, "isActive"),
               LAMBDA a : FALSE)
        ELSE bankAccounts
  IN [ ret  |-> [ success |-> TRUE, error |-> "" ],
       file |-> Append(demoted, bankAccountData) ]

\* updateBankAccount
updateBankAccount(bankAccounts, id, updates, now) ==
  LET accountIndex == getBankAccountById(bankAccounts, id) IN
  IF accountIndex = 0
  THEN [ ret |-> [ success |-> FALSE, error |-> BankNotFoundError ],
         file |-> bankAccounts ]
  ELSE LET owner == bankAccounts[accountIndex].userId
           demoted ==
             IF Truthy(updates, "isPrimary")
             THEN SetPrimaryWhere(bankAccounts,
                    LAMBDA a : a.userId = owner /\ Truthy(a, "isActive") /\ a.id # id,
                    LAMBDA a : FALSE)
             ELSE bankAccounts
       IN [ ret  |-> [ success |-> TRUE, error |-> "" ],
            file |-> [demoted EXCEPT ![accountIndex] =
                        Merge(Merge(demoted[accountIndex], updates),
                              [updatedAt |-> now])] ]

\* variant: hard delete, the record is taken out of the array
deleteBankAccount_Splice(bankAccounts, id, now) ==
  LET accountIndex == getBankAccountById(bankAccounts, id) IN
  IF accountIndex = 0
  THEN [ ret |-> [ success |-> FALSE, error |-> BankNotFoundError ],
         file |-> bankAccounts ]
  ELSE [ ret  |-> [ success |-> TRUE, error |-> "" ],
         file |-> SubSeq(bankAccounts, 1, accountIndex - 1)
                  \o SubSeq(bankAccounts, accountIndex + 1, Len(bankAccounts)) ]

\* deleteBankAccount: soft delete
deleteBankAccount(bankAccounts, id, now) ==
  LET accountIndex == getBankAccountById(bankAccounts, id) IN
  IF accountIndex = 0
  THEN [ ret |-> [ success |-> FALSE, error |-> BankNotFoundError ],
         file |-> bankAccounts ]
  ELSE [ ret  |-> [ success |-> TRUE, error |-> "" ],
         file |-> [bankAccounts EXCEPT ![accountIndex] =
                     Merge(bankAccounts[accountIndex],
                           [isActive |-> FALSE, deletedAt |-> now])] ]

\* variant: the target is made primary, the siblings are not demoted
setPrimaryBankAccount_NoDemotion(bankAccounts, userId, bankAccountId) ==
  LET userAccounts == getUserBankAccounts(bankAccounts, userId) IN
  IF ~ \E i \in 1..Len(userAccounts) : userAccounts[i].id = bankAccountId
  THEN [ ret |-> [ success |-> FALSE, error |-> BankNotFoundError ],
         file |-> bankAccounts ]
  ELSE [ ret  |-> [ success |-> TRUE, error |-> "" ],
         file |-> SetPrimaryWhere(bankAccounts,
                    LAMBDA a : a.userId = userId /\ Truthy(a, "isActive")
                               /\ a.id = bankAccountId,
                    LAMBDA a : TRUE) ]

\* variant: the target is looked up among all the accounts of the user,
\* deleted ones included, and the siblings are demoted before the lookup
setPrimaryBankAccount_AnyAccount(bankAccounts, userId, bankAccountId) ==
  LET demoted == SetPrimaryWhere(bankAccounts,
                   LAMBDA a : a.userId = userId /\ Truthy(a, "isActive"),
                   LAMBDA a : a.id = bankAccountId)
  IN
  IF ~ \E i \in 1..Len(bankAccounts) :
         bankAccounts[i].userId = userId /\ bankAccounts[i].id = bankAccountId
  THEN [ ret |-> [ success |-> FALSE, error |-> BankNotFoundError ],
         file |-> demoted ]
  ELSE [ ret  |-> [ success |-> TRUE, error |-> "" ],
         file |-> demoted ]

\* setPrimaryBankAccount
setPrimaryBankAccount(bankAccounts, userId, bankAccountId) ==
  LET userAccounts == getUserBankAccounts(bankAccounts, userId) IN
  IF ~ \E i \in 1..Len(userAccounts) : userAccounts[i].id = bankAccountId
  THEN [ ret |-> [ success |-> FALSE, error |-> BankNotFoundError ],
         file |-> bankAccounts ]
  ELSE [ ret  |-> [ success |-> TRUE, error |-> "" ],
         file |-> SetPrimaryWhere(bankAccounts,
                    LAMBDA a : a.userId = userId /\ Truthy(a, "isActive"),
                    LAMBDA a : a.id = bankAccountId) ]

\* ------------------------------------------------------------------------
\* Strings
\* ------------------------------------------------------------------------
Max(a, b) == IF a > b THEN a ELSE b

\* s.slice(-n): the last n characters, the whole string when it is shorter
SliceLast(s, n) == SubSeq(s, Max(1, Len(s) - n + 1), Len(s))

\* the bullet character of the masks is written "*"
PayoutMaskPrefix == << "*", "*", "*", "*", " " >>

\* ------------------------------------------------------------------------
\* FileStore: financial summary and payouts
\* ------------------------------------------------------------------------
PayoutHistoryLimit == 1000

RECURSIVE SumCompleted(_)
\* payouts.reduce((sum, p) => p.status === 'completed' ? sum + p.amount : sum, 0)
SumCompleted(payouts) ==
  IF payouts = << >> THEN 0
  ELSE (IF Head(payouts).status = "completed" THEN Head(payouts).amount ELSE 0)
       + SumCompleted(Tail(payouts))

\* array.reverse(): payouts are appended in creation order, so the sort by
\* createdAt, newest first, is the reversed array
Reverse(arr) == [i \in 1..Len(arr) |-> arr[Len(arr) + 1 - i]]

\* getPayoutHistory(userId, page, limit).payouts
getPayoutHistory(payouts, userId, page, limit) ==
  LET userPayouts == Reverse(SelectSeq(payouts, LAMBDA x : x.userId = userId))
      startIndex  == (page - 1) * limit
      endIndex    == startIndex + limit
  IN SubSeq(userPayouts, startIndex + 1,
            IF endIndex < Len(userPayouts) THEN endIndex ELSE Len(userPayouts))

\* getFinancialSummary
getFinancialSummary(payouts, userId) ==
  LET totalEarnings == OrderTotalOne + OrderTotalTwo
      totalPaidOut  == SumCompleted(getPayoutHistory(payouts, userId, 1,
                                                     PayoutHistoryLimit))
  IN [ availableBalance |-> totalEarnings - totalPaidOut,
       pendingBalance   |-> 0,
       totalPaidOut     |-> totalPaidOut,
       totalEarnings    |-> totalEarnings,
       minimumPayout    |-> MinimumPayout ]

\* variant: the payout is stored as completed
NewPayout_Completed(id, userId, bankAccountId, amount, bankAccount) ==
  [ id            |-> id,
    userId        |-> userId,
    bankAccountId |-> bankAccountId,
    amount        |-> amount,
    status        |-> "completed",
    bankAccountInfo |->
      [ accountNumber |->
          IF StrOf(bankAccount, "accountNumber") # << >>
          THEN PayoutMaskPrefix \o SliceLast(bankAccount.accountNumber, 4)
          ELSE << >> ] ]

\* the record pushed by initiatePayout
NewPayout(id, userId, bankAccountId, amount, bankAccount) ==
  [ id            |-> id,
    userId        |-> userId,
    bankAccountId |-> bankAccountId,
    amount        |-> amount,
    status        |-> "pending",
    bankAccountInfo |->
      [ accountNumber |->
          IF StrOf(bankAccount, "accountNumber") # << >>
          THEN PayoutMaskPrefix \o SliceLast(bankAccount.accountNumber, 4)
          ELSE << >> ] ]

\* variant: the balance comparison is inverted
InsufficientBalance_Inverted(amount, summary) == amount < summary.availableBalance

\* amount > summary.availableBalance
InsufficientBalance(amount, summary) == amount > summary.availableBalance

\* initiatePayout
initiatePayout(payouts, bankAccounts, payoutId, userId, bankAccountId, amount) ==
  LET summary == getFinancialSummary(payouts, userId)
      idx     == getBankAccountById(bankAccounts, bankAccountId)
  IN
  IF InsufficientBalance(amount, summary)
  THEN [ ret |-> [ success |-> FALSE, error |-> InsufficientBalanceError ],
         file |-> payouts ]
  ELSE IF amount < summary.minimumPayout
  THEN [ ret |-> [ success |-> FALSE, error |-> BelowMinimumError ],
         file |-> payouts ]
  ELSE IF idx = 0 \/ bankAccounts[idx].userId # userId
                  \/ ~Truthy(bankAccounts[idx], "isActive")
  THEN [ ret |-> [ success |-> FALSE, error |-> InvalidAccountError ],
         file |-> payouts ]
  ELSE [ ret  |-> [ success |-> TRUE, error |-> "" ],
         file |-> Append(payouts, NewPayout(payoutId, userId, bankAccountId,
                                            amount, bankAccounts[idx])) ]

\* ------------------------------------------------------------------------
\* The bank-account and payout calls, each run to completion
\* ------------------------------------------------------------------------
\* patches of updateBankAccount: isPrimary or isActive alone, or both set
BankPatches ==
  { [ isPrimary |-> TRUE ], [ isPrimary |-> FALSE ],
    [ isActive |-> TRUE ], [ isActive |-> FALSE ],
    [ isPrimary |-> TRUE, isActive |-> TRUE ] }

\* a store call: its result is returned, its array is saved
BankCallDone(c, r) ==
  /\ nbank' = nbank + 1
  /\ bankCall' = c
  /\ bankRet' = r.ret
  /\ prevBank' = bankAccountsFile
  /\ prevPayouts' = payoutsFile
  /\ bankNow' = bankNow + 1

CreateBankAccount(userId, isPrimary) ==
  LET data == [ id |-> nextBankId, userId |-> userId,
                isPrimary |-> isPrimary, isActive |-> TRUE ]
      r == createBankAccount(bankAccountsFile, data)
  IN /\ BankCallDone([ op |-> "createBankAccount", data |-> data ], r)
     /\ bankAccountsFile' = r.file
     /\ nextBankId' = nextBankId + 1
     /\ UNCHANGED payoutsFile

UpdateBankAccount(id, updates) ==
  LET r == updateBankAccount(bankAccountsFile, id, updates, bankNow)
  IN /\ BankCallDone([ op |-> "updateBankAccount", id |-> id,
                       updates |-> updates, at |-> bankNow ], r)
     /\ bankAccountsFile' = r.file
     /\ UNCHANGED << payoutsFile, nextBankId >>

DeleteBankAccount(id) ==
  LET r == deleteBankAccount(bankAccountsFile, id, bankNow)
  IN /\ BankCallDone([ op |-> "deleteBankAccount", id |-> id, at |-> bankNow ], r)
     /\ bankAccountsFile' = r.file
     /\ UNCHANGED << payoutsFile, nextBankId >>

SetPrimaryBankAccount(userId, id) ==
  LET r == setPrimaryBankAccount(bankAccountsFile, userId, id)
  IN /\ BankCallDone([ op |-> "setPrimaryBankAccount", userId |-> userId,
                       id |-> id ], r)
     /\ bankAccountsFile' = r.file
     /\ UNCHANGED << payoutsFile, nextBankId >>

InitiatePayout(userId, id, amount) ==
  LET r == initiatePayout(payoutsFile, bankAccountsFile, nextBankId,
                          userId, id, amount)
  IN /\ BankCallDone([ op |-> "initiatePayout", userId |-> userId,
                       id |-> id, amount |-> amount ], r)
     /\ payoutsFile' = r.file
     /\ nextBankId' = IF r.ret.success THEN nextBankId + 1 ELSE nextBankId
     /\ UNCHANGED bankAccountsFile

BankNext ==
  /\ nbank < MaxBankCalls
  /\ \/ \E u \in UserNames, b \in BOOLEAN : CreateBankAccount(u, b)
     \/ \E id \in 1..nextBankId, u \in BankPatches : UpdateBankAccount(id, u)
     \/ \E id \in 1..nextBankId : DeleteBankAccount(id)
     \/ \E u \in UserNames, id \in 1..nextBankId : SetPrimaryBankAccount(u, id)

PayoutNext ==
  /\ nbank < MaxPayoutCalls
  /\ \/ \E u \in UserNames, b \in BOOLEAN : CreateBankAccount(u, b)
     \/ \E id \in 1..nextBankId : DeleteBankAccount(id)
     \/ \E u \in UserNames, id \in 1..nextBankId, a \in Amounts :
           InitiatePayout(u, id, a)

\* ------------------------------------------------------------------------
\* BankingCodec: field-level encryption (finance routes)
\* ------------------------------------------------------------------------
HexDigits == << "0", "1", "2", "3", "4", "5", "6", "7", "8", "9",
                "a", "b", "c", "d", "e", "f" >>

HexCharSet == { HexDigits[i] : i \in 1..16 }
HexTable == [c \in HexCharSet |-> (CHOOSE i \in 1..16 : HexDigits[i] = c) - 1]

IsHexChar(c) == LowerChar(c) \in HexCharSet
HexVal(c) == HexTable[LowerChar(c)]

\* buffer.toString('hex')
ToHex(bytes) ==
  [i \in 1..(2 * Len(bytes)) |->
     IF i % 2 = 1 THEN HexDigits[(bytes[(i + 1) \div 2] \div 16) + 1]
                  ELSE HexDigits[(bytes[i \div 2] % 16) + 1]]

\* length of the longest prefix of s made of hexadecimal digits
RECURSIVE HexPrefixLen(_)
HexPrefixLen(s) ==
  IF s = << >> \/ ~IsHexChar(Head(s)) THEN 0 ELSE 1 + HexPrefixLen(Tail(s))

\* Buffer.from(s, 'hex'): decoding stops at the first character that is not
\* a hexadecimal digit; an odd trailing digit is dropped
FromHex(s) ==
  LET n == HexPrefixLen(s) \div 2 IN
  [i \in 1..n |-> 16 * HexVal(s[2 * i - 1]) + HexVal(s[2 * i])]

\* AES block size in bytes
BlockSize == 16

\* The keyed block cipher is abstracted as a keyed byte permutation chained
\* over the message (each cipher byte depends on the key, the plain byte and
\* the previous cipher byte). createCipher derives key and chaining start
\* from ENCRYPTION_KEY alone, so the output depends on the text only.
ByteMod    == 256
KeyMul     == 167
KeyMulInv  == 23
KeyAdd     == 91
KeyStart   == 77

\* padding that adds nothing to a text that already fills its blocks
Pad_NoFullBlock(bytes) ==
  LET n == (BlockSize - (Len(bytes) % BlockSize)) % BlockSize IN
  bytes \o [i \in 1..n |-> n]

\* PKCS#7 padding added by cipher.final()
Pad(bytes) ==
  LET n == BlockSize - (Len(bytes) % BlockSize) IN
  bytes \o [i \in 1..n |-> n]

RECURSIVE CipherFrom(_, _)
CipherFrom(bytes, prev) ==
  IF bytes = << >> THEN << >>
  ELSE LET c == (KeyMul * ((Head(bytes) + prev) % ByteMod) + KeyAdd) % ByteMod
       IN << c >> \o CipherFrom(Tail(bytes), c)

\* cipher.update(text) + cipher.final()
Encipher(bytes) == CipherFrom(Pad(bytes), KeyStart)

\* the plain byte behind cipher byte i
DecipherByte(cbytes, i) ==
  LET prev == IF i = 1 THEN KeyStart ELSE cbytes[i - 1]
      x    == (KeyMulInv * ((cbytes[i] - KeyAdd + ByteMod) % ByteMod)) % ByteMod
  IN (x - prev + ByteMod) % ByteMod

\* decipher.update() + decipher.final(): "error" when the input is not a
\* whole number of blocks or the padding is wrong (final() throws)
Decipher(cbytes) ==
  LET n     == Len(cbytes)
      plain == [i \in 1..n |-> DecipherByte(cbytes, i)]
  IN IF n = 0 \/ n % BlockSize # 0 THEN [ ok |-> FALSE, bytes |-> << >> ]
     ELSE LET padLen == plain[n] IN
          IF padLen < 1 \/ padLen > BlockSize
             \/ \E i \in (n - padLen + 1)..n : plain[i] # padLen
          THEN [ ok |-> FALSE, bytes |-> << >> ]
          ELSE [ ok |-> TRUE, bytes |-> SubSeq(plain, 1, n - padLen) ]

\* the values crypto.randomBytes(16) takes in the model: 16 equal bytes
IvByteChoices == { 0, 171 }
Ivs == { [i \in 1..BlockSize |-> b] : b \in IvByteChoices }

\* encrypt(text), with the random iv as a parameter
encrypt(text, iv) ==
  ToHex(iv) \o << ":" >> \o ToHex(Encipher(Utf8Encode(text)))

\* text.split(':'): the parts between the colons
RECURSIVE SplitColon(_)
SplitColon(s) ==
  IF \A i \in 1..Len(s) : s[i] # ":" THEN << s >>
  ELSE LET k == CHOOSE i \in 1..Len(s) :
                  s[i] = ":" /\ \A j \in 1..(i - 1) : s[j] # ":"
       IN << SubSeq(s, 1, k - 1) >> \o SplitColon(SubSeq(s, k + 1, Len(s)))

\* parts.join(':')
RECURSIVE JoinColon(_)
JoinColon(parts) ==
  IF parts = << >> THEN << >>
  ELSE IF Len(parts) = 1 THEN parts[1]
  ELSE parts[1] \o << ":" >> \o JoinColon(Tail(parts))

\* decrypt(text): [ok, text]; ok = FALSE when decipher.final() throws
decrypt(text) ==
  LET textParts     == SplitColon(text)
      encryptedText == JoinColon(Tail(textParts))
      d             == Decipher(FromHex(encryptedText))
  IN IF d.ok THEN [ ok |-> TRUE, text |-> Utf8Decode(d.bytes) ]
     ELSE [ ok |-> FALSE, text |-> << >> ]

\* ------------------------------------------------------------------------
\* BankingCodec: country schema and format patterns (finance routes)
\* ------------------------------------------------------------------------
SchemaCountries ==
  { "US", "UK", "CA", "AU", "DE", "FR", "IN", "PK", "JP", "CN", "BR", "MX",
    "DEFAULT" }

\* a country code that has no entry in BANK_ACCOUNT_FIELDS
UnlistedCountry == "ZZ"

BANK_ACCOUNT_FIELDS ==
  [ c \in SchemaCountries |->
     CASE c = "US" -> [ required |-> << "accountHolderName", "routingNumber", "accountNumber", "accountType", "bankName" >>,
                     optional |-> << "swiftCode", "address" >> ]
       [] c = "UK" -> [ required |-> << "accountHolderName", "sortCode", "accountNumber", "bankName" >>,
                     optional |-> << "swiftCode", "iban", "address" >> ]
       [] c = "CA" -> [ required |-> << "accountHolderName", "institutionNumber", "transitNumber", "accountNumber", "bankName" >>,
                     optional |-> << "swiftCode", "address" >> ]
       [] c = "AU" -> [ required |-> << "accountHolderName", "bsb", "accountNumber", "bankName" >>,
                     optional |-> << "swiftCode", "address" >> ]
       [] c = "DE" -> [ required |-> << "accountHolderName", "iban", "bic", "bankName" >>,
                     optional |-> << "address" >> ]
       [] c = "FR" -> [ required |-> << "accountHolderName", "iban", "bic", "bankName" >>,
                     optional |-> << "address" >> ]
       [] c = "IN" -> [ required |-> << "accountHolderName", "accountNumber", "ifscCode", "bankName" >>,
                     optional |-> << "swiftCode", "address", "panNumber" >> ]
       [] c = "PK" -> [ required |-> << "accountHolderName", "accountNumber", "bankName", "branchCode" >>,
                     optional |-> << "swiftCode", "iban", "address", "cnic" >> ]
       [] c = "JP" -> [ required |-> << "accountHolderName", "bankCode", "branchCode", "accountNumber", "bankName" >>,
                     optional |-> << "swiftCode", "address" >> ]
       [] c = "CN" -> [ required |-> << "accountHolderName", "accountNumber", "bankName", "cityCode" >>,
                     optional |-> << "swiftCode", "address" >> ]
       [] c = "BR" -> [ required |-> << "accountHolderName", "bankCode", "agencyNumber", "accountNumber", "bankName" >>,
                     optional |-> << "swiftCode", "address", "cpfCnpj" >> ]
       [] c = "MX" -> [ required |-> << "accountHolderName", "clabe", "bankName" >>,
                     optional |-> << "swiftCode", "address", "rfc" >> ]
       [] c = "DEFAULT" -> [ required |-> << "accountHolderName", "accountNumber", "bankName", "country" >>,
                     optional |-> << "swiftCode", "iban", "routingCode", "address" >> ] ]

DigitChars == { "0", "1", "2", "3", "4", "5", "6", "7", "8", "9" }
UpperChars == { c \in AsciiCharSet : CodeOf(c) >= CodeOf("A") /\ CodeOf(c) <= CodeOf("Z") }
SpaceChars == { " ", "\t", "\n", "\r" }

\* one piece of a regular expression: a character class repeated n times,
\* n in counts
D(lo, hi)  == [ cls |-> DigitChars, counts |-> lo..hi ]
U(lo, hi)  == [ cls |-> UpperChars, counts |-> lo..hi ]
UD(lo, hi) == [ cls |-> UpperChars \cup DigitChars, counts |-> lo..hi ]
UDopt(n)   == [ cls |-> UpperChars \cup DigitChars, counts |-> { 0, n } ]
Lit(c)     == [ cls |-> { c }, counts |-> { 1 } ]
OptSpace   == [ cls |-> SpaceChars, counts |-> { 0, 1 } ]

RECURSIVE Matches(_, _)
\* pattern.test(s) for an anchored pattern ^...$
Matches(tokens, s) ==
  IF tokens = << >> THEN s = << >>
  ELSE \E n \in Head(tokens).counts :
         /\ n <= Len(s)
         /\ \A i \in 1..n : s[i] \in Head(tokens).cls
         /\ Matches(Tail(tokens), SubSeq(s, n + 1, Len(s)))

BicPattern == << U(6, 6), UD(2, 2), UDopt(3) >>

\* VALIDATION_PATTERNS: per country, the patterns in declaration order
VALIDATION_PATTERNS(country) ==
  CASE country = "US" ->
         << [ field |-> "routingNumber", pattern |-> << D(9, 9) >> ],
            [ field |-> "accountNumber", pattern |-> << D(4, 20) >> ] >>
    [] country = "UK" ->
         << [ field |-> "sortCode",
              pattern |-> << D(2, 2), Lit("-"), D(2, 2), Lit("-"), D(2, 2) >> ],
            [ field |-> "accountNumber", pattern |-> << D(8, 8) >> ] >>
    [] country = "CA" ->
         << [ field |-> "institutionNumber", pattern |-> << D(3, 3) >> ],
            [ field |-> "transitNumber", pattern |-> << D(5, 5) >> ],
            [ field |-> "accountNumber", pattern |-> << D(7, 12) >> ] >>
    [] country = "AU" ->
         << [ field |-> "bsb", pattern |-> << D(6, 6) >> ],
            [ field |-> "accountNumber", pattern |-> << D(6, 9) >> ] >>
    [] country = "DE" ->
         << [ field |-> "iban",
              pattern |-> << Lit("D"), Lit("E"), D(2, 2), OptSpace, D(4, 4),
                             OptSpace, D(4, 4), OptSpace, D(4, 4), OptSpace,
                             D(4, 4), OptSpace, D(2, 2) >> ],
            [ field |-> "bic", pattern |-> BicPattern ] >>
    [] country = "FR" ->
         << [ field |-> "iban",
              pattern |-> << Lit("F"), Lit("R"), D(2, 2), OptSpace, D(4, 4),
                             OptSpace, D(4, 4), OptSpace, D(4, 4), OptSpace,
                             D(4, 4), OptSpace, D(4, 4), OptSpace, D(2, 2) >> ],
            [ field |-> "bic", pattern |-> BicPattern ] >>
    [] country = "IN" ->
         << [ field |-> "accountNumber", pattern |-> << D(9, 18) >> ],
            [ field |-> "ifscCode", pattern |-> << U(4, 4), Lit("0"), UD(6, 6) >> ],
            [ field |-> "panNumber", pattern |-> << U(5, 5), D(4, 4), U(1, 1) >> ] >>
    [] country = "PK" ->
         << [ field |-> "accountNumber", pattern |-> << D(10, 16) >> ],
            [ field |-> "branchCode", pattern |-> << D(4, 4) >> ],
            [ field |-> "cnic",
              pattern |-> << D(5, 5), Lit("-"), D(7, 7), Lit("-"), D(1, 1) >> ] >>
    [] OTHER -> << >>

\* accountData[field] is truthy: the key is present and the string not empty
HasValue(obj, key) == key \in DOMAIN obj /\ obj[key] # << >>

\* variant: only the first missing required field is reported
validateBankAccount_FirstMissing(country, accountData) ==
  LET fields   == IF country \in SchemaCountries \ { "DEFAULT" }
                  THEN BANK_ACCOUNT_FIELDS[country]
                  ELSE BANK_ACCOUNT_FIELDS["DEFAULT"]
      missingFields == SelectSeq(fields.required,
                                 LAMBDA f : ~HasValue(accountData, f))
  IN IF missingFields # << >>
     THEN [ valid |-> FALSE, error |-> "Missing required fields",
            fields |-> << Head(missingFields) >> ]
     ELSE [ valid |-> TRUE, error |-> "", fields |-> << >> ]

\* validateBankAccount(country, accountData)
validateBankAccount(country, accountData) ==
  LET fields   == IF country \in SchemaCountries \ { "DEFAULT" }
                  THEN BANK_ACCOUNT_FIELDS[country]
                  ELSE BANK_ACCOUNT_FIELDS["DEFAULT"]
      patterns == VALIDATION_PATTERNS(country)
      missingFields == SelectSeq(fields.required,
                                 LAMBDA f : ~HasValue(accountData, f))
      bad == { i \in 1..Len(patterns) :
                 /\ HasValue(accountData, patterns[i].field)
                 /\ ~Matches(patterns[i].pattern, accountData[patterns[i].field]) }
  IN IF missingFields # << >>
     THEN [ valid |-> FALSE, error |-> "Missing required fields",
            fields |-> missingFields ]
     ELSE IF bad # {}
     THEN [ valid |-> FALSE, error |-> "Invalid format",
            fields |-> << patterns[CHOOSE i \in bad : \A j \in bad : i <= j].field >> ]
     ELSE [ valid |-> TRUE, error |-> "", fields |-> << >> ]

\* ------------------------------------------------------------------------
\* Finance routes: bank accounts and payout initiation
\* ------------------------------------------------------------------------
\* number of requests in one behaviour of the routes specification
MaxRequests == 2


\* the sensitiveFields array of POST /bank-accounts
PostSensitiveFields ==
  { "accountNumber", "routingNumber", "sortCode", "iban", "ifscCode", "bsb" }

\* variant: the list of PUT /bank-accounts/:id misses the newer fields
PutSensitiveFields_Short ==
  { "accountNumber", "routingNumber", "sortCode", "iban" }

\* the sensitiveFields array of PUT /bank-accounts/:id
PutSensitiveFields ==
  { "accountNumber", "routingNumber", "sortCode", "iban", "ifscCode", "bsb" }

\* the keys of data that encrypt() is applied to
EncryptedKeys(data, sensitiveFields) ==
  { k \in DOMAIN data : k \in sensitiveFields /\ HasValue(data, k) }

\* the loop over Object.entries(data): sensitive non-empty values encrypted;
\* iv is the value randomBytes returns during this request
EncryptFields(data, sensitiveFields, iv) ==
  [k \in DOMAIN data |->
     IF k \in EncryptedKeys(data, sensitiveFields)
     THEN encrypt(data[k], iv) ELSE data[k]]

Bullets(n) == [i \in 1..n |-> "*"]

\* '**** **** **** ' of POST and GET /bank-accounts
AccountMaskPrefix ==
  Bullets(4) \o << " " >> \o Bullets(4) \o << " " >> \o Bullets(4) \o << " " >>

OkResponse(accounts, payouts) ==
  [ status |-> 200, error |-> "", accounts |-> accounts, payouts |-> payouts ]

ErrorResponse(status, error) ==
  [ status |-> status, error |-> error, accounts |-> << >>, payouts |-> << >> ]

\* maskedAccountNumber of POST /bank-accounts
PostMaskedAccountNumber(stored) ==
  IF stored # << >>
  THEN AccountMaskPrefix \o SliceLast(decrypt(stored).text, 4)
  ELSE << >>

\* POST /bank-accounts
PostBankAccount(user, body, iv) ==
  LET accountData == Without(body, { "country", "isPrimary" }) IN
  /\ req' = [ kind |-> "POST", user |-> user, body |-> body ]
  /\ IF "country" \notin DOMAIN body
     THEN /\ resp' = ErrorResponse(400, "Country is required")
          /\ UNCHANGED << bankAccountsFile, nextBankId >>
     ELSE LET validation == validateBankAccount(body.country, accountData) IN
          IF ~validation.valid
          THEN /\ resp' = ErrorResponse(400, validation.error)
               /\ UNCHANGED << bankAccountsFile, nextBankId >>
          ELSE LET encryptedAccountData ==
                     EncryptFields(accountData, PostSensitiveFields, iv)
                   newBankAccount ==
                     Merge([ id        |-> nextBankId,
                             userId    |-> user,
                             country   |-> body.country,
                             isPrimary |-> Truthy(body, "isPrimary"),
                             isActive  |-> TRUE ],
                           encryptedAccountData)
                   result == createBankAccount(bankAccountsFile, newBankAccount)
                   stored == StrOf(newBankAccount, "accountNumber")
               IN /\ bankAccountsFile' = result.file
                  /\ nextBankId' = nextBankId + 1
                  /\ resp' = IF stored # << >> /\ ~decrypt(stored).ok
                             THEN ErrorResponse(500, "Failed to create bank account")
                             ELSE OkResponse(
                                    << Merge(newBankAccount,
                                         [ accountNumber |->
                                             PostMaskedAccountNumber(stored) ]) >>,
                                    << >>)
  /\ UNCHANGED payoutsFile

\* the masking of GET /bank-accounts, applied to the stored values
GetMasked(account) ==
  LET an == StrOf(account, "accountNumber")
      rn == StrOf(account, "routingNumber")
      sc == StrOf(account, "sortCode")
      ib == StrOf(account, "iban")
  IN Merge(account,
       [ accountNumber |-> IF an # << >> THEN AccountMaskPrefix \o SliceLast(an, 4)
                           ELSE << >>,
         routingNumber |-> IF rn # << >> THEN Bullets(6) \o SliceLast(rn, 3)
                           ELSE << >>,
         sortCode      |-> IF sc # << >>
                           THEN << "*", "*", "-", "*", "*", "-" >> \o SliceLast(sc, 2)
                           ELSE << >>,
         iban          |-> IF ib # << >>
                           THEN SubSeq(ib, 1, IF Len(ib) < 4 THEN Len(ib) ELSE 4)
                                \o Bullets(16) \o SliceLast(ib, 4)
                           ELSE << >> ])

\* GET /bank-accounts
GetBankAccounts(user) ==
  LET bankAccounts == getUserBankAccounts(bankAccountsFile, user) IN
  /\ req' = [ kind |-> "GET", user |-> user ]
  /\ resp' = OkResponse([i \in 1..Len(bankAccounts) |-> GetMasked(bankAccounts[i])],
                        << >>)
  /\ UNCHANGED << bankAccountsFile, nextBankId, payoutsFile >>

\* PUT /bank-accounts/:id
PutBankAccount(user, id, body, iv) ==
  LET updates == Without(body, { "country" })
      idx     == getBankAccountById(bankAccountsFile, id)
  IN
  /\ req' = [ kind |-> "PUT", user |-> user, id |-> id, body |-> body ]
  /\ UNCHANGED << nextBankId, payoutsFile >>
  /\ IF idx = 0 \/ bankAccountsFile[idx].userId # user
     THEN /\ resp' = ErrorResponse(404, BankNotFoundError)
          /\ UNCHANGED bankAccountsFile
     ELSE LET existingAccount == bankAccountsFile[idx]
              validation ==
                IF "country" \in DOMAIN body /\ body.country # existingAccount.country
                THEN validateBankAccount(body.country, updates)
                ELSE [ valid |-> TRUE, error |-> "", fields |-> << >> ]
          IN IF ~validation.valid
             THEN /\ resp' = ErrorResponse(400, validation.error)
                  /\ UNCHANGED bankAccountsFile
             ELSE LET encryptedUpdates ==
                        EncryptFields(updates, PutSensitiveFields, iv)
                      result ==
                        updateBankAccount(bankAccountsFile, id,
                          Merge(encryptedUpdates,
                            [ country |-> IF "country" \in DOMAIN body
                                          THEN body.country
                                          ELSE existingAccount.country ]),
                          bankNow)
                  IN /\ bankAccountsFile' = result.file
                     /\ resp' = OkResponse(<< result.file[idx] >>, << >>)

\* POST /initiate-payout
PostInitiatePayout(user, bankAccountId, amount) ==
  /\ req' = [ kind |-> "PAYOUT", user |-> user, id |-> bankAccountId,
              amount |-> amount ]
  /\ UNCHANGED << bankAccountsFile >>
  /\ IF amount <= 0
     THEN /\ resp' = ErrorResponse(400, "Invalid payout request")
          /\ UNCHANGED << payoutsFile, nextBankId >>
     ELSE LET result == initiatePayout(payoutsFile, bankAccountsFile, nextBankId,
                                       user, bankAccountId, amount)
          IN /\ payoutsFile' = result.file
             /\ nextBankId' = IF result.ret.success THEN nextBankId + 1
                              ELSE nextBankId
             /\ resp' = IF result.ret.success
                        THEN OkResponse(<< >>, << result.file[Len(result.file)] >>)
                        ELSE ErrorResponse(400, result.ret.error)

\* ------------------------------------------------------------------------
\* Request bodies of the routes specification
\* ------------------------------------------------------------------------
ModelCountries == { "US", "UK", "AU", "IN", "DE" }

\* a body that passes validation for the country
SampleBody(c) ==
  CASE c = "US" -> [ accountHolderName |-> << "H" >>, bankName |-> << "B" >>,
                     accountType |-> << "c" >>,
                     routingNumber |-> << "1", "2", "3", "4", "5", "6", "7", "8", "9" >>,
                     accountNumber |-> << "1", "2", "3", "4", "5" >> ]
    [] c = "UK" -> [ accountHolderName |-> << "H" >>, bankName |-> << "B" >>,
                     sortCode |-> << "1", "2", "-", "3", "4", "-", "5", "6" >>,
                     accountNumber |-> << "1", "2", "3", "4", "5", "6", "7", "8" >>,
                     iban |-> << "G", "B", "1", "2", "B", "A", "N", "K" >> ]
    [] c = "AU" -> [ accountHolderName |-> << "H" >>, bankName |-> << "B" >>,
                     bsb |-> << "1", "2", "3", "4", "5", "6" >>,
                     accountNumber |-> << "1", "2", "3", "4", "5", "6" >> ]
    [] c = "IN" -> [ accountHolderName |-> << "H" >>, bankName |-> << "B" >>,
                     ifscCode |-> << "A", "B", "C", "D", "0", "1", "2", "3", "4", "5", "6" >>,
                     accountNumber |-> << "1", "2", "3", "4", "5", "6", "7", "8", "9" >> ]
    [] c = "DE" -> [ accountHolderName |-> << "H" >>, bankName |-> << "B" >>,
                     iban |-> << "D", "E", "1", "2", "1", "2", "3", "4", "1", "2", "3", "4", "1", "2", "3", "4", "1", "2", "3", "4", "1", "2" >>,
                     bic |-> << "A", "B", "C", "D", "E", "F", "G", "H" >> ]
    [] OTHER    -> [ accountHolderName |-> << "H" >>, bankName |-> << "B" >>,
                     accountNumber |-> << "1", "2", "3", "4", "5" >> ]

\* US account numbers: too short, the shortest valid one, a longer one
UsAccountNumbers == { << "1", "2", "3" >>, << "1", "2", "3", "4" >>, << "1", "2", "3", "4", "5" >> }

PostBodies ==
  { Merge(SampleBody(c), [ country |-> c ]) : c \in ModelCountries }
  \cup { Merge(SampleBody("US"), [ country |-> "US", accountNumber |-> a,
                                   isPrimary |-> TRUE ]) :
           a \in UsAccountNumbers }
  \cup { Merge(Without(SampleBody("US"), { "routingNumber", "bankName" }),
               [ country |-> "US" ]) }
  \cup { SampleBody("US") }
  \cup { Merge(SampleBody(UnlistedCountry), [ country |-> UnlistedCountry ]) }

\* a new value for one sensitive field
PutSample(f) ==
  CASE f = "accountNumber" -> << "1", "2", "3", "4" >>
    [] f = "routingNumber" -> << "1", "2", "3", "4", "5", "6", "7", "8", "9" >>
    [] f = "sortCode"      -> << "1", "2", "-", "3", "4", "-", "5", "6" >>
    [] f = "iban"          -> << "G", "B", "1", "2", "B", "A", "N", "K" >>
    [] f = "ifscCode"      -> << "A", "B", "C", "D", "0", "1", "2", "3", "4", "5", "6" >>
    [] f = "bsb"           -> << "1", "2", "3", "4", "5", "6" >>

PutBodies ==
  { [ k \in { f } |-> PutSample(f) ] : f \in PostSensitiveFields }
  \cup { [ k \in { f } |-> << >> ] : f \in { "accountNumber" } }
  \cup { [ isPrimary |-> TRUE ], [ isActive |-> FALSE ] }
  \cup { Merge(SampleBody(c), [ country |-> c ]) : c \in { "AU" } }

\* every plaintext a request of the model submits for a sensitive field
Plaintexts ==
  ( UsAccountNumbers
    \cup { PutSample(f) : f \in PostSensitiveFields }
    \cup UNION { { SampleBody(c)[f] : f \in PostSensitiveFields \cap DOMAIN SampleBody(c) } :
                  c \in ModelCountries } )
  \ { << >> }

RouteAmounts == { 0, MinimumPayout, OrderTotalOne + OrderTotalTwo + 1 }

RoutesNext ==
  /\ nreq < MaxRequests
  /\ nreq' = nreq + 1
  /\ bankNow' = bankNow + 1
  /\ \/ \E u \in UserNames, b \in PostBodies, iv \in Ivs :
          PostBankAccount(u, b, iv)
     \/ \E u \in UserNames : GetBankAccounts(u)
     \/ \E u \in UserNames, id \in 1..nextBankId, b \in PutBodies, iv \in Ivs :
          PutBankAccount(u, id, b, iv)
     \/ \E u \in UserNames, id \in 1..nextBankId, a \in RouteAmounts :
          PostInitiatePayout(u, id, a)



\* ------------------------------------------------------------------------
\* Specifications
\* ------------------------------------------------------------------------
\* the state after construction: init() has created the empty collection files
\* ------------------------------------------------------------------------
\* BankingCodec round trip: encrypt then decrypt in one process
\* ------------------------------------------------------------------------
\* length of the variable part of the texts given to encrypt
MaxTextLen == 2

\* characters of the texts: a digit, the separator of the stored format, a
\* two-byte character and an unpaired surrogate
CodecAlphabet == { "7", ":", "U+00E9", LoneSurrogate }

RECURSIVE TextsOfLen(_)
TextsOfLen(n) ==
  IF n = 0 THEN { << >> }
  ELSE { << c >> \o t : c \in CodecAlphabet, t \in TextsOfLen(n - 1) }

ShortTexts == UNION { TextsOfLen(n) : n \in 1..MaxTextLen }

\* fifteen characters: one more byte fills the first cipher block
Filler == << "A", "C", "C", "T", "-", "0", "0", "0", "0", "0", "0", "0", "0", "0", "0" >>

CodecTexts == ShortTexts \cup { Filler \o t : t \in ShortTexts }

VARIABLES
  codecPc,    \* "idle", "encrypted", "decrypted"
  codecIn,    \* the text given to encrypt
  codecEnc,   \* what encrypt returned
  codecOut    \* what decrypt returned for codecEnc: [ok, text]

codecVars == << codecPc, codecIn, codecEnc, codecOut >>

CodecEncrypt(x, iv) ==
  /\ codecPc = "idle"
  /\ codecPc' = "encrypted"
  /\ codecIn' = x
  /\ codecEnc' = encrypt(x, iv)
  /\ UNCHANGED codecOut

CodecDecrypt ==
  /\ codecPc = "encrypted"
  /\ codecPc' = "decrypted"
  /\ codecOut' = decrypt(codecEnc)
  /\ UNCHANGED << codecIn, codecEnc >>

CodecNext ==
  \/ \E x \in CodecTexts, iv \in Ivs : CodecEncrypt(x, iv)
  \/ CodecDecrypt

\* ------------------------------------------------------------------------
\* FileStore: user-app installations (userApps.json)
\* ------------------------------------------------------------------------
\* number of installApp/uninstallApp calls that overlap in one behaviour
MaxAppCalls == 3
\* number of store calls issued one after the other in one behaviour
MaxAppSeqCalls == 4

AppIds == { "app1", "app2" }
Ratings == { 1, 5 }

AlreadyInstalledError == "App already installed"
NotInstalledError     == "App not found or not installed"
InstallFailedError    == "Failed to install app"
UninstallFailedError  == "Failed to uninstall app"

VARIABLES
  userAppsFile,  \* content of userApps.json: the array of installation rows
  nextInstId,    \* source of fresh installation and rating ids
  appNow,        \* the clock read by new Date()
  appPc,         \* per call slot: "idle", "saving", "done"
  appCall,       \* per call slot: the call in progress
  appPending,    \* per call slot: the array the call is about to save
  appRet,        \* per call slot: the value the call returns
  appPrev,       \* userApps.json before the last whole call
  napps          \* number of calls issued so far

appVars == << userAppsFile, nextInstId, appNow, appPc, appCall, appPending,
              appRet, appPrev, napps >>

\* isAppInstalled(userId, appId)
isAppInstalled(userApps, userId, appId) ==
  \E i \in 1..Len(userApps) :
     /\ userApps[i].userId = userId
     /\ userApps[i].appId = appId
     /\ userApps[i].isActive

\* installApp that adds a row whenever the pair has no active row
installApp_AlwaysPush(userApps, userId, appId, freshId, now) ==
  LET installation == [ id |-> freshId, userId |-> userId, appId |-> appId,
                        installedAt |-> now, isActive |-> TRUE ]
  IN IF isAppInstalled(userApps, userId, appId)
     THEN [ write |-> FALSE, file |-> userApps,
            ret |-> [ success |-> FALSE, error |-> AlreadyInstalledError ] ]
     ELSE [ write |-> TRUE, file |-> Append(userApps, installation),
            ret |-> [ success |-> TRUE, installation |-> installation ] ]

\* installApp(userId, appId) on the array read from the file: the array to
\* save (when write) and the value returned once the save succeeded
installApp(userApps, userId, appId, freshId, now) ==
  LET SamePair(r) == r.userId = userId /\ r.appId = appId
      idx == FindIndex(userApps, SamePair)
      installation == [ id |-> freshId, userId |-> userId, appId |-> appId,
                        installedAt |-> now, isActive |-> TRUE ]
  IN IF idx # 0 /\ userApps[idx].isActive
     THEN [ write |-> FALSE, file |-> userApps,
            ret |-> [ success |-> FALSE, error |-> AlreadyInstalledError ] ]
     ELSE [ write |-> TRUE,
            file |-> IF idx # 0
                     THEN [ userApps EXCEPT ![idx] =
                              Merge(@, [ isActive |-> TRUE, installedAt |-> now ]) ]
                     ELSE Append(userApps, installation),
            ret |-> [ success |-> TRUE, installation |-> installation ] ]

\* uninstallApp that deactivates the first row of the user, whatever the app
uninstallApp_AnyApp(userApps, userId, appId, now) ==
  LET OfUser(r) == r.userId = userId /\ r.isActive
      idx == FindIndex(userApps, OfUser)
  IN IF idx = 0
     THEN [ write |-> FALSE, file |-> userApps,
            ret |-> [ success |-> FALSE, error |-> NotInstalledError ] ]
     ELSE [ write |-> TRUE,
            file |-> [ userApps EXCEPT ![idx] =
                         Merge(@, [ isActive |-> FALSE, uninstalledAt |-> now ]) ],
            ret |-> [ success |-> TRUE ] ]

\* uninstallApp(userId, appId) on the array read from the file
uninstallApp(userApps, userId, appId, now) ==
  LET ActivePair(r) == r.userId = userId /\ r.appId = appId /\ r.isActive
      idx == FindIndex(userApps, ActivePair)
  IN IF idx = 0
     THEN [ write |-> FALSE, file |-> userApps,
            ret |-> [ success |-> FALSE, error |-> NotInstalledError ] ]
     ELSE [ write |-> TRUE,
            file |-> [ userApps EXCEPT ![idx] =
                         Merge(@, [ isActive |-> FALSE, uninstalledAt |-> now ]) ],
            ret |-> [ success |-> TRUE ] ]

\* rateApp(userId, appId, rating, review): nothing is stored
rateApp(userId, appId, rating, review, freshId, now) ==
  [ success |-> TRUE,
    rating |-> [ id |-> freshId, userId |-> userId, appId |-> appId,
                 rating |-> rating, review |-> review, createdAt |-> now ] ]

\* the error returned when saveUserApps returned false
SaveFailedError(op) ==
  IF op = "installApp" THEN InstallFailedError ELSE UninstallFailedError

\* getUserApps(): the parsed file, or [] when reading it failed
getUserApps(readOk) == IF readOk THEN userAppsFile ELSE << >>

\* --- overlapping calls: the part of a call up to its await of the save ---
AppRead(p, c, r) ==
  /\ appPc[p] = "idle"
  /\ appCall' = [appCall EXCEPT ![p] = c]
  /\ appPending' = [appPending EXCEPT ![p] = r.file]
  /\ appRet' = [appRet EXCEPT ![p] = r.ret]
  /\ appPc' = [appPc EXCEPT ![p] = IF r.write THEN "saving" ELSE "done"]
  /\ appNow' = appNow + 1
  /\ napps' = napps + 1
  /\ UNCHANGED << userAppsFile, appPrev >>

InstallAppRead(p, userId, appId, readOk) ==
  LET r == installApp(getUserApps(readOk), userId, appId, nextInstId, appNow)
  IN /\ AppRead(p, [ op |-> "installApp", userId |-> userId, appId |-> appId,
                     at |-> appNow, readOk |-> readOk ], r)
     /\ nextInstId' = IF r.write THEN nextInstId + 1 ELSE nextInstId

UninstallAppRead(p, userId, appId, readOk) ==
  LET r == uninstallApp(getUserApps(readOk), userId, appId, appNow)
  IN /\ AppRead(p, [ op |-> "uninstallApp", userId |-> userId, appId |-> appId,
                     at |-> appNow, readOk |-> readOk ], r)
     /\ UNCHANGED nextInstId

\* saveUserApps(userApps) and the return statement that follows it
SaveUserApps(p, writeOk) ==
  /\ appPc[p] = "saving"
  /\ appPc' = [appPc EXCEPT ![p] = "done"]
  /\ userAppsFile' = IF writeOk THEN appPending[p] ELSE userAppsFile
  /\ appRet' = [appRet EXCEPT ![p] =
                  IF writeOk THEN @
                  ELSE [ success |-> FALSE, error |-> SaveFailedError(appCall[p].op) ]]
  /\ UNCHANGED << nextInstId, appNow, appCall, appPending, appPrev, napps >>

\* the caller takes the result; the slot is free again
AppReturn(p) ==
  /\ appPc[p] = "done"
  /\ appPc' = [appPc EXCEPT ![p] = "idle"]
  /\ appCall' = [appCall EXCEPT ![p] = NoCall]
  /\ appPending' = [appPending EXCEPT ![p] = << >>]
  /\ appRet' = [appRet EXCEPT ![p] = NoRet]
  /\ UNCHANGED << userAppsFile, nextInstId, appNow, appPrev, napps >>

AppsNext ==
  \/ /\ napps < MaxAppCalls
     /\ \E p \in Procs, u \in UserNames, a \in AppIds :
          \* call slots are interchangeable: a call takes the first free one;
          \* the file is readable, a save may fail
          /\ \A q \in 1..(p - 1) : appPc[q] # "idle"
          /\ \/ InstallAppRead(p, u, a, TRUE)
             \/ UninstallAppRead(p, u, a, TRUE)
  \/ \E p \in Procs, writeOk \in BOOLEAN : SaveUserApps(p, writeOk)
  \/ \E p \in Procs : AppReturn(p)

\* --- calls one after the other: a whole call is one step (slot 1) ---
AppCallDone(c, r, file) ==
  /\ \A p \in Procs : appPc[p] # "saving"
  /\ appPc' = [appPc EXCEPT ![1] = "done"]
  /\ appCall' = [appCall EXCEPT ![1] = c]
  /\ appRet' = [appRet EXCEPT ![1] = r]
  /\ appPrev' = userAppsFile
  /\ userAppsFile' = file
  /\ appNow' = appNow + 1
  /\ napps' = napps + 1
  /\ UNCHANGED appPending

InstallApp(userId, appId) ==
  LET r == installApp(userAppsFile, userId, appId, nextInstId, appNow)
  IN /\ AppCallDone([ op |-> "installApp", userId |-> userId, appId |-> appId,
                      at |-> appNow ], r.ret, r.file)
     /\ nextInstId' = IF r.write THEN nextInstId + 1 ELSE nextInstId

UninstallApp(userId, appId) ==
  LET r == uninstallApp(userAppsFile, userId, appId, appNow)
  IN /\ AppCallDone([ op |-> "uninstallApp", userId |-> userId, appId |-> appId,
                      at |-> appNow ], r.ret, r.file)
     /\ UNCHANGED nextInstId

IsAppInstalled(userId, appId) ==
  /\ AppCallDone([ op |-> "isAppInstalled", userId |-> userId, appId |-> appId,
                   at |-> appNow ],
                 [ success |-> TRUE,
                   value |-> isAppInstalled(userAppsFile, userId, appId) ],
                 userAppsFile)
  /\ UNCHANGED nextInstId

RateApp(userId, appId, rating) ==
  /\ AppCallDone([ op |-> "rateApp", userId |-> userId, appId |-> appId,
                   at |-> appNow ],
                 rateApp(userId, appId, rating, << >>, nextInstId, appNow),
                 userAppsFile)
  /\ nextInstId' = nextInstId + 1

AppsSeqNext ==
  /\ napps < MaxAppSeqCalls
  /\ \E u \in UserNames, a \in AppIds :
       \/ InstallApp(u, a)
       \/ UninstallApp(u, a)
       \/ IsAppInstalled(u, a)
       \/ \E g \in Ratings : RateApp(u, a, g)

\* ------------------------------------------------------------------------
\* DocumentStore (mongoDatabase.js): finance, bank-account and user-app
\* methods. None of them reads or writes a collection.
\* ------------------------------------------------------------------------
MongoNotImplementedError == "Not implemented for MongoDB yet"
MongoNotImplemented == [ success |-> FALSE, error |-> MongoNotImplementedError ]

MongoAvailableBalance == 1000
MongoPendingBalance   == 500
MongoTotalPaidOut     == 2000
MongoTotalEarnings    == 3500

Mongo_getFinancialSummary(userId) ==
  [ availableBalance |-> MongoAvailableBalance,
    pendingBalance   |-> MongoPendingBalance,
    totalPaidOut     |-> MongoTotalPaidOut,
    totalEarnings    |-> MongoTotalEarnings,
    minimumPayout    |-> MinimumPayout ]

Mongo_initiatePayout(userId, bankAccountId, amount) == MongoNotImplemented
Mongo_getUserBankAccounts(userId) == << >>
Mongo_createBankAccount(bankAccountData) == MongoNotImplemented
Mongo_updateBankAccount(id, updates) == MongoNotImplemented
Mongo_deleteBankAccount(id) == MongoNotImplemented
Mongo_setPrimaryBankAccount(userId, bankAccountId) == MongoNotImplemented
Mongo_isAppInstalled(userId, appId) == FALSE
Mongo_installApp(userId, appId) == MongoNotImplemented
Mongo_uninstallApp(userId, appId) == MongoNotImplemented
Mongo_rateApp(userId, appId, rating, review) == MongoNotImplemented

\* what the DocumentStore returns for a call the FileStore was given
MongoRet(c) ==
  CASE c.op = "createBankAccount"     -> Mongo_createBankAccount(c.data)
    [] c.op = "updateBankAccount"     -> Mongo_updateBankAccount(c.id, c.updates)
    [] c.op = "deleteBankAccount"     -> Mongo_deleteBankAccount(c.id)
    [] c.op = "setPrimaryBankAccount" -> Mongo_setPrimaryBankAccount(c.userId, c.id)
    [] c.op = "initiatePayout"        -> Mongo_initiatePayout(c.userId, c.id, c.amount)
    [] c.op = "installApp"            -> Mongo_installApp(c.userId, c.appId)
    [] c.op = "uninstallApp"          -> Mongo_uninstallApp(c.userId, c.appId)
    [] c.op = "rateApp"               -> Mongo_rateApp(c.userId, c.appId, 0, << >>)
    [] c.op = "isAppInstalled"        ->
         [ success |-> TRUE, value |-> Mongo_isAppInstalled(c.userId, c.appId) ]

\* ------------------------------------------------------------------------
\* Store selection by the USE_MONGODB environment flag
\* ------------------------------------------------------------------------
\* number of authenticated requests handled in one behaviour
MaxFlagRequests == 3

\* values of process.env.USE_MONGODB: undefined (not set) or a string
FlagUnset == [ set |-> FALSE, value |-> << >> ]
FlagSet(str) == [ set |-> TRUE, value |-> str ]
FlagValues == { FlagUnset, FlagSet(<< >>), FlagSet(<<"t","r","u","e">>),
                FlagSet(<<"f","a","l","s","e">>) }

\* the route modules that select a store, in the order server.js loads them
RouteModules == << "auth", "analytics", "finance", "apps" >>

\* JavaScript truthiness of the flag: undefined and '' are falsy
FlagTruthy(f) == f.set /\ f.value # << >>

\* process.env.USE_MONGODB === 'true'
FlagIsTrue(f) == f.set /\ f.value = <<"t","r","u","e">>

\* const db = process.env.USE_MONGODB ? mongoDatabase : db  (route modules)
RouteStore(f) == IF FlagTruthy(f) THEN "mongo" ELSE "file"

\* getDatabase() of the authentication middleware
getDatabase(f) == IF FlagIsTrue(f) THEN "mongo" ELSE "file"

\* the app.listen callback: connects to MongoDB or announces file storage
StartupStore(f) == IF FlagIsTrue(f) THEN "mongo" ELSE "file"

VARIABLES
  flagPc,     \* "init", "loading", "serving"
  envFlag,    \* process.env.USE_MONGODB
  routeDb,    \* per route module: the store bound at load time, "none" before
  startupDb,  \* the store the start-up prepared, "none" before
  reqLog      \* handled requests: route, the route's store, the middleware's

flagVars == << flagPc, envFlag, routeDb, startupDb, reqLog >>

ModuleNames == { RouteModules[i] : i \in 1..Len(RouteModules) }

\* require('dotenv').config(): the environment is fixed for the process
StartProcess(f) ==
  /\ flagPc = "init"
  /\ flagPc' = "loading"
  /\ envFlag' = f
  /\ UNCHANGED << routeDb, startupDb, reqLog >>

\* the next require of a route module evaluates its db selection
LoadRoute ==
  /\ flagPc = "loading"
  /\ \E i \in 1..Len(RouteModules) :
       /\ routeDb[RouteModules[i]] = "none"
       /\ \A j \in 1..(i - 1) : routeDb[RouteModules[j]] # "none"
       /\ routeDb' = [routeDb EXCEPT ![RouteModules[i]] = RouteStore(envFlag)]
  /\ UNCHANGED << flagPc, envFlag, startupDb, reqLog >>

Listen ==
  /\ flagPc = "loading"
  /\ \A m \in ModuleNames : routeDb[m] # "none"
  /\ flagPc' = "serving"
  /\ startupDb' = StartupStore(envFlag)
  /\ UNCHANGED << envFlag, routeDb, reqLog >>

\* an authenticated request: authenticateToken, then the route handler
HandleRequest(m) ==
  /\ flagPc = "serving"
  /\ Len(reqLog) < MaxFlagRequests
  /\ reqLog' = Append(reqLog, [ route |-> m, routeStore |-> routeDb[m],
                                authStore |-> getDatabase(envFlag) ])
  /\ UNCHANGED << flagPc, envFlag, routeDb, startupDb >>

FlagNext ==
  \/ \E f \in FlagValues : StartProcess(f)
  \/ LoadRoute
  \/ Listen
  \/ \E m \in ModuleNames : HandleRequest(m)

\* ------------------------------------------------------------------------
\* FileStore: events (events.json), getPublicEvents
\* ------------------------------------------------------------------------
\* number of events in events.json
NumEvents == 12
\* number of updateEvent calls in one behaviour
MaxEventUpdates == 1
\* the last value of the clock
MaxEventClock == 2
\* the events that updateEvent is called for
MaxUpdatedEvent == 1

\* options.limit || 10
DefaultLimit == 10

EventNotFoundError == "Event not found"

\* the event with number i of the file found on disk: start dates are not in
\* file order and repeat; every fourth event has no category
SeedEvent(i) ==
  LET base == [ id |-> i, status |-> "published", isActive |-> TRUE,
                startDate |-> ((i * 5) % 7) + 2,
                title |-> IF i % 2 = 0 THEN << "G", "a", "l", "a" >>
                          ELSE << "E", "x", "p", "o" >>,
                description |-> << "d" >>,
                location |-> IF i % 3 = 0 THEN << "O", "n", "l", "i", "n", "e" >>
                             ELSE << "L", "a", "h", "o", "r", "e" >>,
                updatedAt |-> 0 ]
  IN IF i % 4 = 0 THEN base
     ELSE Merge(base, [ category |-> IF i % 3 = 1 THEN << "A", "r", "t", "s" >>
                                     ELSE << "M", "u", "s", "i", "c" >> ])

VARIABLES
  eventsFile,  \* content of events.json
  eventNow,    \* the clock read by new Date()
  eventCall,   \* the last call
  eventRet,    \* what it returned
  nevents      \* number of updateEvent calls so far

eventVars == << eventsFile, eventNow, eventCall, eventRet, nevents >>

\* hay.includes(needle)
Includes(hay, needle) ==
  \E i \in 0..(Len(hay) - Len(needle)) : SubSeq(hay, i + 1, i + Len(needle)) = needle

\* event[key]?.toLowerCase().includes(term.toLowerCase())
FieldIncludes(event, key, term) ==
  /\ key \in DOMAIN event
  /\ Includes(toLowerCase(event[key]), toLowerCase(term))

\* array.slice(start, end) with the positions counted from 0; a negative
\* position counts from the end of the array
Slice(arr, start, end) ==
  LET len  == Len(arr)
      from == IF start < 0 THEN Max(len + start, 0)
              ELSE IF start > len THEN len ELSE start
      to   == IF end < 0 THEN Max(len + end, 0)
              ELSE IF end > len THEN len ELSE end
  IN SubSeq(arr, from + 1, to)

\* filteredEvents.sort((a, b) => new Date(a.startDate) - new Date(b.startDate)):
\* ascending, events of the same date keep their order
SortByStartDate(events) ==
  LET RECURSIVE Sorted(_)
      Sorted(es) ==
        IF es = << >> THEN << >>
        ELSE LET rest == Sorted(SubSeq(es, 1, Len(es) - 1))
                 e    == es[Len(es)]
                 k    == Cardinality({ j \in 1..Len(rest) :
                                         rest[j].startDate <= e.startDate })
             IN SubSeq(rest, 1, k) \o << e >> \o SubSeq(rest, k + 1, Len(rest))
  IN Sorted(events)

\* the first filter of getPublicEvents
IsPublic(event, now) ==
  /\ event.status = "published"
  /\ Truthy(event, "isActive")
  /\ event.startDate > now

\* options[key] of a numeric option, 0 when absent (0 is falsy as well)
NumOf(options, key) == IF key \in DOMAIN options THEN options[key] ELSE 0

\* the filters of getPublicEvents, applied one after the other
PassingEvents(events, options, now) ==
  LET public == SelectSeq(events, LAMBDA e : IsPublic(e, now))
      byCategory ==
        IF StrOf(options, "category") # << >>
        THEN SelectSeq(public, LAMBDA e : FieldIncludes(e, "category", options.category))
        ELSE public
      byLocation ==
        IF StrOf(options, "location") # << >>
        THEN SelectSeq(byCategory, LAMBDA e : FieldIncludes(e, "location", options.location))
        ELSE byCategory
  IN IF StrOf(options, "search") # << >>
     THEN SelectSeq(byLocation,
            LAMBDA e : \/ FieldIncludes(e, "title", options.search)
                       \/ FieldIncludes(e, "description", options.search)
                       \/ FieldIncludes(e, "category", options.search))
     ELSE byLocation

\* getPublicEvents(options) on the array read from the file
getPublicEvents(events, options, now) ==
  LET startIndex == NumOf(options, "offset")
      endIndex   == startIndex + (IF NumOf(options, "limit") # 0
                                  THEN options.limit ELSE DefaultLimit)
  IN Slice(SortByStartDate(PassingEvents(events, options, now)),
           startIndex, endIndex)

\* updateEvent(id, updates) on the array read from the file
updateEvent(events, id, updates, now) ==
  LET eventIndex == FindIndex(events, LAMBDA e : e.id = id) IN
  IF eventIndex = 0
  THEN [ file |-> events,
         ret |-> [ success |-> FALSE, error |-> EventNotFoundError ] ]
  ELSE LET saved == [events EXCEPT ![eventIndex] =
                       Merge(Merge(@, updates), [ updatedAt |-> now ])]
       IN [ file |-> saved,
            ret |-> [ success |-> TRUE, event |-> saved[eventIndex] ] ]

\* the patches given to updateEvent
EventPatches ==
  { [ status |-> "draft" ], [ isActive |-> FALSE ], [ startDate |-> 0 ],
    [ startDate |-> 9 ] }

\* the filters and pages asked of getPublicEvents
FilterChoices ==
  { << >>,
    [ category |-> << "m", "U" >> ],
    [ location |-> << "l", "i", "n" >> ],
    [ search |-> << "g", "A" >> ],
    [ category |-> << "a", "r" >>, search |-> << "e", "x" >> ] }

PageChoices ==
  { Merge(o, l) :
      o \in { << >>, [ offset |-> 0 ], [ offset |-> 2 ], [ offset |-> -2 ] },
      l \in { << >>, [ limit |-> 0 ], [ limit |-> 3 ], [ limit |-> NumEvents - 1 ] } }

EventOptions == { Merge(f, g) : f \in FilterChoices, g \in PageChoices }

UpdateEvent(id, updates) ==
  LET r == updateEvent(eventsFile, id, updates, eventNow)
  IN /\ eventCall.op # "getPublicEvents"
     /\ nevents < MaxEventUpdates
     /\ nevents' = nevents + 1
     /\ eventsFile' = r.file
     /\ eventCall' = [ op |-> "updateEvent", id |-> id, updates |-> updates ]
     /\ eventRet' = r.ret
     /\ UNCHANGED eventNow

GetPublicEvents(options) ==
  /\ eventCall.op # "getPublicEvents"
  /\ eventCall' = [ op |-> "getPublicEvents", options |-> options ]
  /\ eventRet' = getPublicEvents(eventsFile, options, eventNow)
  /\ UNCHANGED << eventsFile, eventNow, nevents >>

\* time passes between calls
EventTick ==
  /\ eventCall.op # "getPublicEvents"
  /\ eventNow < MaxEventClock
  /\ eventNow' = eventNow + 1
  /\ UNCHANGED << eventsFile, eventCall, eventRet, nevents >>

\* the caller takes the events returned
EventReturn ==
  /\ eventCall.op = "getPublicEvents"
  /\ eventCall' = NoCall
  /\ eventRet' = NoRet
  /\ UNCHANGED << eventsFile, eventNow, nevents >>

EventsNext ==
  \/ \E id \in 1..MaxUpdatedEvent, u \in EventPatches : UpdateEvent(id, u)
  \/ \E o \in EventOptions : GetPublicEvents(o)
  \/ EventTick
  \/ EventReturn

\* ------------------------------------------------------------------------
\* DocumentStore: users (mongoDatabase.js createUser, updateUser)
\* ------------------------------------------------------------------------
\* number of DocumentStore user calls in one behaviour
MaxMongoCalls == 3

VARIABLES
  mongoUsers,   \* the documents of the users collection
  nextMongoId,  \* source of generateId('user')
  mongoNow,     \* the clock read by new Date()
  mongoPc,      \* per call slot: "idle", "saving", "sent" or "done"
  mongoCall,    \* per call slot: the call and what it sends to the database
  mongoRet,     \* per call slot: the value the call returns
  mongoLog,     \* history: the updates the database applied, in order
  nmongo        \* number of calls issued so far

mongoVars == << mongoUsers, nextMongoId, mongoNow, mongoPc, mongoCall,
                mongoRet, mongoLog, nmongo >>

\* the patches given to the DocumentStore updateUser
MongoPatches ==
  { [ firstName |-> << "m" >> ], [ isActive |-> FALSE ],
    [ password |-> << "q" >> ], [ profile |-> [ bio |-> << "x" >> ] ],
    [ firstName |-> << "m" >>, updatedAt |-> 0 ] }

\* User.findOne({ email: userData.email.toLowerCase() })
Mongo_findOneByEmail(docs, email) ==
  FindIndex(docs, LAMBDA u : u.email = toLowerCase(email))

\* new User({ ... }) of createUser
Mongo_newUser(id, userData) ==
  [ id        |-> id,
    email     |-> toLowerCase(userData.email),
    firstName |-> userData.firstName,
    password  |-> userData.password,
    isActive  |-> TRUE,
    profile   |-> [ bio |-> << >>, website |-> << >> ] ]

\* variant: the keys of the update are set on the document as it was when
\* created, so what earlier updates stored is dropped
findOneAndUpdate_OnCreatedDocument(docs, id, update) ==
  LET idx == FindIndex(docs, LAMBDA u : u.id = id) IN
  IF idx = 0 THEN [ docs |-> docs, found |-> FALSE, doc |-> << >> ]
  ELSE LET asCreated == Mongo_newUser(id, [ email |-> docs[idx].email,
                                          firstName |-> << "n" >>,
                                          password |-> << "p" >> ])
             doc == Merge(asCreated, update)
       IN [ docs |-> [docs EXCEPT ![idx] = doc], found |-> TRUE, doc |-> doc ]

\* User.findOneAndUpdate({ id }, update, { new: true }): one operation of
\* the database that sets the keys of the update on the document found
findOneAndUpdate(docs, id, update) ==
  LET idx == FindIndex(docs, LAMBDA u : u.id = id) IN
  IF idx = 0 THEN [ docs |-> docs, found |-> FALSE, doc |-> << >> ]
  ELSE LET doc == Merge(docs[idx], update)
       IN [ docs |-> [docs EXCEPT ![idx] = doc], found |-> TRUE, doc |-> doc ]

\* variant: updateUser returns the document as the database returned it
Mongo_updateUserReturn_WholeDocument(r) ==
  IF ~r.found THEN [ success |-> FALSE, error |-> UserNotFoundError ]
  ELSE [ success |-> TRUE, user |-> r.doc ]

\* what updateUser returns for the result of findOneAndUpdate
Mongo_updateUserReturn(r) ==
  IF ~r.found THEN [ success |-> FALSE, error |-> UserNotFoundError ]
  ELSE [ success |-> TRUE, user |-> Without(r.doc, { "password" }) ]

\* createUser up to its await of save(): the findOne, and the document built
Mongo_createUserFind(p, userData) ==
  LET existingUser == Mongo_findOneByEmail(mongoUsers, userData.email)
      newUser      == Mongo_newUser(nextMongoId, userData)
  IN /\ mongoPc[p] = "idle"
     /\ mongoCall' = [mongoCall EXCEPT ![p] =
                        [ op |-> "createUser", userData |-> userData,
                          doc |-> newUser ]]
     /\ IF existingUser # 0
        THEN /\ mongoPc' = [mongoPc EXCEPT ![p] = "done"]
             /\ mongoRet' = [mongoRet EXCEPT ![p] =
                               [ success |-> FALSE, error |-> DuplicateEmailError ]]
             /\ UNCHANGED nextMongoId
        ELSE /\ mongoPc' = [mongoPc EXCEPT ![p] = "saving"]
             /\ nextMongoId' = nextMongoId + 1
             /\ UNCHANGED mongoRet
     /\ nmongo' = nmongo + 1
     /\ UNCHANGED << mongoUsers, mongoNow, mongoLog >>

\* newUser.save() and the return statement of createUser
Mongo_createUserSave(p) ==
  /\ mongoPc[p] = "saving"
  /\ mongoUsers' = Append(mongoUsers, mongoCall[p].doc)
  /\ mongoPc' = [mongoPc EXCEPT ![p] = "done"]
  /\ mongoRet' = [mongoRet EXCEPT ![p] =
                    [ success |-> TRUE,
                      user |-> Without(mongoCall[p].doc, { "password" }) ]]
  /\ UNCHANGED << nextMongoId, mongoNow, mongoCall, mongoLog, nmongo >>

\* updateUser up to its await: the update document is built and sent
Mongo_updateUserSend(p, id, updates) ==
  /\ mongoPc[p] = "idle"
  /\ mongoPc' = [mongoPc EXCEPT ![p] = "sent"]
  /\ mongoCall' = [mongoCall EXCEPT ![p] =
                     [ op |-> "updateUser", id |-> id, updates |-> updates,
                       update |-> Merge(updates, [ updatedAt |-> mongoNow ]) ]]
  /\ mongoNow' = mongoNow + 1
  /\ nmongo' = nmongo + 1
  /\ UNCHANGED << mongoUsers, nextMongoId, mongoRet, mongoLog >>

\* the database runs the findOneAndUpdate; updateUser returns its result
Mongo_updateUserApply(p) ==
  LET c == mongoCall[p]
      r == findOneAndUpdate(mongoUsers, c.id, c.update)
  IN /\ mongoPc[p] = "sent"
     /\ mongoUsers' = r.docs
     /\ mongoPc' = [mongoPc EXCEPT ![p] = "done"]
     /\ mongoRet' = [mongoRet EXCEPT ![p] = Mongo_updateUserReturn(r)]
     /\ mongoLog' = IF r.found
                    THEN Append(mongoLog, [ id |-> c.id, update |-> c.update,
                                            slot |-> p ])
                    ELSE mongoLog
     /\ UNCHANGED << nextMongoId, mongoNow, mongoCall, nmongo >>

\* the caller takes the result; the slot is free again
MongoReturn(p) ==
  /\ mongoPc[p] = "done"
  /\ mongoPc' = [mongoPc EXCEPT ![p] = "idle"]
  /\ mongoCall' = [mongoCall EXCEPT ![p] = NoCall]
  /\ mongoRet' = [mongoRet EXCEPT ![p] = NoRet]
  /\ UNCHANGED << mongoUsers, nextMongoId, mongoNow, mongoLog, nmongo >>

MongoUsersNext ==
  \/ /\ nmongo < MaxMongoCalls
     /\ \E p \in Procs :
          \* call slots are interchangeable: a call takes the first free one
          /\ \A q \in 1..(p - 1) : mongoPc[q] # "idle"
          /\ \/ \E d \in UserDrafts : Mongo_createUserFind(p, d)
             \/ \E id \in 1..nextMongoId, u \in MongoPatches :
                   Mongo_updateUserSend(p, id, u)
  \/ \E p \in Procs : Mongo_createUserSave(p)
  \/ \E p \in Procs : Mongo_updateUserApply(p)
  \/ \E p \in Procs : MongoReturn(p)

\* ------------------------------------------------------------------------
\* Events routes (POST /, PUT /:eventId, PATCH /:eventId/publish,
\* DELETE /:eventId) on the Event collection
\* ------------------------------------------------------------------------
\* number of requests to the events routes in one behaviour
MaxEventRequests == 3

VARIABLES
  eventDocs,     \* the documents of the Event collection
  nextEventId,   \* source of the generated event ids
  evRouteNow,    \* the clock read by new Date()
  evReq,         \* the last request handled
  evResp,        \* the response sent for it
  prevEventDocs, \* history: the collection before the last request
  nevreq         \* number of requests so far

evRouteVars == << eventDocs, nextEventId, evRouteNow, evReq, evResp,
                  prevEventDocs, nevreq >>

EventAccessError == "Event not found or access denied"

\* bodies of PUT /:eventId: plain keys, and a body that carries an update
\* operator
EventPutBodies ==
  { [ title |-> << "t" >> ],
    [ status |-> "published" ],
    [ status |-> "cancelled", title |-> << "t" >> ],
    [ id |-> 0, organizerId |-> "u2", title |-> << "t" >> ],
    ("$set" :> [ organizerId |-> "u2" ]),
    ("$set" :> [ id |-> 0 ]) }

\* the update document as the database applies it: keys that are not
\* operators are set, together with the keys of a $set operator
CastUpdate(update) ==
  LET plain == Without(update, { "$set" })
  IN IF "$set" \in DOMAIN update THEN Merge(plain, update["$set"]) ELSE plain

\* Event.findOneAndUpdate({ id, organizerId }, update, { new: true })
Event_findOneAndUpdate(docs, id, organizerId, update) ==
  LET idx == FindIndex(docs, LAMBDA e : e.id = id /\ e.organizerId = organizerId)
  IN IF idx = 0 THEN [ docs |-> docs, found |-> FALSE, doc |-> << >> ]
     ELSE LET doc == Merge(docs[idx], CastUpdate(update))
          IN [ docs |-> [docs EXCEPT ![idx] = doc], found |-> TRUE, doc |-> doc ]

\* Event.findOneAndDelete({ id, organizerId })
Event_findOneAndDelete(docs, id, organizerId) ==
  LET idx == FindIndex(docs, LAMBDA e : e.id = id /\ e.organizerId = organizerId)
  IN IF idx = 0 THEN [ docs |-> docs, found |-> FALSE ]
     ELSE [ docs |-> SubSeq(docs, 1, idx - 1) \o SubSeq(docs, idx + 1, Len(docs)),
            found |-> TRUE ]

\* a request handled: the response, the collection after it
EventRequestDone(r, status, error, event, docs) ==
  /\ nevreq < MaxEventRequests
  /\ nevreq' = nevreq + 1
  /\ evRouteNow' = evRouteNow + 1
  /\ evReq' = r
  /\ evResp' = [ status |-> status, error |-> error, event |-> event ]
  /\ prevEventDocs' = eventDocs
  /\ eventDocs' = docs

\* POST /
PostEvent(user, title) ==
  LET newEvent == [ id |-> nextEventId, title |-> title,
                    organizerId |-> user, status |-> "draft" ]
  IN /\ EventRequestDone([ kind |-> "POST", user |-> user ], 201, "",
                         << newEvent >>, Append(eventDocs, newEvent))
     /\ nextEventId' = nextEventId + 1

\* PUT /:eventId
PutEvent(user, eventId, body) ==
  LET updateData == Without(body, { "id", "organizerId" })
      r == Event_findOneAndUpdate(eventDocs, eventId, user, updateData)
  IN /\ IF ~r.found
        THEN EventRequestDone([ kind |-> "PUT", user |-> user, id |-> eventId,
                                body |-> body ], 404, EventAccessError,
                              << >>, eventDocs)
        ELSE EventRequestDone([ kind |-> "PUT", user |-> user, id |-> eventId,
                                body |-> body ], 200, "", << r.doc >>, r.docs)
     /\ UNCHANGED nextEventId

\* PATCH /:eventId/publish
PublishEvent(user, eventId) ==
  LET r == Event_findOneAndUpdate(eventDocs, eventId, user,
             [ status |-> "published", publishedAt |-> evRouteNow ])
  IN /\ IF ~r.found
        THEN EventRequestDone([ kind |-> "PUBLISH", user |-> user, id |-> eventId ],
                              404, EventAccessError, << >>, eventDocs)
        ELSE EventRequestDone([ kind |-> "PUBLISH", user |-> user, id |-> eventId ],
                              200, "", << r.doc >>, r.docs)
     /\ UNCHANGED nextEventId

\* DELETE /:eventId
DeleteEvent(user, eventId) ==
  LET r == Event_findOneAndDelete(eventDocs, eventId, user)
  IN /\ IF ~r.found
        THEN EventRequestDone([ kind |-> "DELETE", user |-> user, id |-> eventId ],
                              404, EventAccessError, << >>, eventDocs)
        ELSE EventRequestDone([ kind |-> "DELETE", user |-> user, id |-> eventId ],
                              200, "", << >>, r.docs)
     /\ UNCHANGED nextEventId

EventRoutesNext ==
  \/ \E u \in UserNames : PostEvent(u, << "e" >>)
  \/ \E u \in UserNames, id \in 1..nextEventId, b \in EventPutBodies :
        PutEvent(u, id, b)
  \/ \E u \in UserNames, id \in 1..nextEventId : PublishEvent(u, id)
  \/ \E u \in UserNames, id \in 1..nextEventId : DeleteEvent(u, id)

\* ------------------------------------------------------------------------
\* FileStore: init(), started by the constructor and not awaited
\* ------------------------------------------------------------------------
\* number of createUser calls issued while init runs or after it
MaxInitCalls == 3

VARIABLES
  initPc,       \* where init is: "ensureDir", "checkUsers", "writeUsers",
                \* "rest" or "done"
  dirExists,    \* the data directory exists
  usersExists   \* users.json exists

initVars == << initPc, dirExists, usersExists >>

\* await fs.ensureDir(this.dataDir)
InitEnsureDir ==
  /\ initPc = "ensureDir"
  /\ initPc' = "checkUsers"
  /\ dirExists' = TRUE
  /\ UNCHANGED << usersExists, userVars >>

\* await fs.pathExists(this.usersFile); a missing file starts saveUsers([])
InitCheckUsers ==
  /\ initPc = "checkUsers"
  /\ initPc' = IF usersExists THEN "rest" ELSE "writeUsers"
  /\ UNCHANGED << dirExists, usersExists, userVars >>

\* the writeJson of saveUsers([]) takes effect
InitWriteUsers ==
  /\ initPc = "writeUsers"
  /\ initPc' = "rest"
  /\ usersFile' = << >>
  /\ usersExists' = TRUE
  /\ UNCHANGED << dirExists, nextUserId, pc, call, snap, pending, ret, ncalls,
                  lastWriter, created, userNow, prevUsers >>

\* the other six files are checked and created; users.json is not touched
InitRest ==
  /\ initPc = "rest"
  /\ initPc' = "done"
  /\ UNCHANGED << dirExists, usersExists, userVars >>

\* a createUser call while init is anywhere: reading a missing file gives
\* [], writing into a missing directory fails
InitRaceCreateUser(userData) ==
  /\ ncalls < MaxInitCalls
  /\ CreateUser(userData, usersExists, dirExists)
  /\ usersExists' = (usersExists \/ (dirExists /\ usersFile' # usersFile))
  /\ UNCHANGED << initPc, dirExists >>

InitRaceNext ==
  \/ InitEnsureDir
  \/ InitCheckUsers
  \/ InitWriteUsers
  \/ InitRest
  \/ \E d \in UserDrafts : InitRaceCreateUser(d)

\* ------------------------------------------------------------------------
\* likes routes: POST /:eventId and DELETE /:eventId
\* ------------------------------------------------------------------------
\* number of like and unlike requests
MaxLikeRequests == 3

LikeEvents == { "event_1", "event_2" }

VARIABLES
  likedEvents,  \* user -> the user's likedEvents array
  likeCount,    \* event -> the event's likeCount (0 when the field is absent)
  likePc,       \* slot -> "idle", "getEvent", "getUser", "updateUser",
                \*         "updateEvent" or "done"
  likeReq,      \* slot -> [kind, user, eventId] of the request
  likeLocal,    \* slot -> [user, event]: the handler's user.likedEvents and
                \*         event.likeCount
  likeRet,      \* slot -> status of the response, 0 while none
  nlikes        \* requests received

likeVars == << likedEvents, likeCount, likePc, likeReq, likeLocal, likeRet,
              nlikes >>

\* array.includes(x)
ArrayIncludes(list, x) == \E i \in 1..Len(list) : list[i] = x

\* a request reaches its handler, in a slot that holds no request or an
\* answered one, and the handler issues its first store read
LikeStart(p, kind, user, eventId) ==
  /\ nlikes < MaxLikeRequests
  /\ likePc[p] \in {"idle", "done"}
  /\ nlikes' = nlikes + 1
  /\ likeReq' = [likeReq EXCEPT ![p] =
                   [kind |-> kind, user |-> user, eventId |-> eventId]]
  /\ likePc' = [likePc EXCEPT ![p] =
                  IF kind = "like" THEN "getEvent" ELSE "getUser"]
  /\ likeLocal' = [likeLocal EXCEPT ![p] = [user |-> << >>, event |-> 0]]
  /\ likeRet' = [likeRet EXCEPT ![p] = 0]
  /\ UNCHANGED << likedEvents, likeCount >>

\* await db.getEventById(eventId): first in POST; in DELETE after the user
\* is written, where a likeCount above 0 is decremented and written and
\* any other ends the request
LikeGetEvent(p) ==
  /\ likePc[p] = "getEvent"
  /\ LET count == likeCount[likeReq[p].eventId] IN
       IF likeReq[p].kind = "like"
         THEN /\ likeLocal' = [likeLocal EXCEPT ![p].event = count]
              /\ likePc' = [likePc EXCEPT ![p] = "getUser"]
              /\ UNCHANGED likeRet
         ELSE IF count > 0
           THEN /\ likeLocal' = [likeLocal EXCEPT ![p].event = count - 1]
                /\ likePc' = [likePc EXCEPT ![p] = "updateEvent"]
                /\ UNCHANGED likeRet
           ELSE /\ likePc' = [likePc EXCEPT ![p] = "done"]
                /\ likeRet' = [likeRet EXCEPT ![p] = 200]
                /\ UNCHANGED likeLocal
  /\ UNCHANGED << likedEvents, likeCount, likeReq, nlikes >>

\* await db.getUserById(userId), the includes test, then push or filter
LikeGetUser(p) ==
  /\ likePc[p] = "getUser"
  /\ LET list == likedEvents[likeReq[p].user]
         eventId == likeReq[p].eventId
         isLike == likeReq[p].kind = "like" IN
       IF ArrayIncludes(list, eventId) = isLike
         THEN /\ likePc' = [likePc EXCEPT ![p] = "done"]
              /\ likeRet' = [likeRet EXCEPT ![p] = 400]
              /\ UNCHANGED likeLocal
         ELSE /\ likeLocal' = [likeLocal EXCEPT ![p].user =
                   IF isLike THEN Append(list, eventId)
                   ELSE SelectSeq(list, LAMBDA id : id # eventId)]
              /\ likePc' = [likePc EXCEPT ![p] = "updateUser"]
              /\ UNCHANGED likeRet
  /\ UNCHANGED << likedEvents, likeCount, likeReq, nlikes >>

\* await db.updateUser(userId, { likedEvents, updatedAt }); POST then
\* increments the likeCount it read, DELETE reads the event
LikeUpdateUser(p) ==
  /\ likePc[p] = "updateUser"
  /\ likedEvents' = [likedEvents EXCEPT ![likeReq[p].user] = likeLocal[p].user]
  /\ IF likeReq[p].kind = "like"
       THEN /\ likeLocal' = [likeLocal EXCEPT ![p].event = @ + 1]
            /\ likePc' = [likePc EXCEPT ![p] = "updateEvent"]
       ELSE /\ likePc' = [likePc EXCEPT ![p] = "getEvent"]
            /\ UNCHANGED likeLocal
  /\ UNCHANGED << likeCount, likeReq, likeRet, nlikes >>

\* await db.updateEvent(eventId, { likeCount, updatedAt }) and res.json
LikeUpdateEvent(p) ==
  /\ likePc[p] = "updateEvent"
  /\ likeCount' = [likeCount EXCEPT ![likeReq[p].eventId] = likeLocal[p].event]
  /\ likePc' = [likePc EXCEPT ![p] = "done"]
  /\ likeRet' = [likeRet EXCEPT ![p] = 200]
  /\ UNCHANGED << likedEvents, likeReq, likeLocal, nlikes >>

LikesNext ==
  \E p \in Procs :
    \/ /\ \A q \in 1..(p - 1) : likePc[q] \notin {"idle", "done"}
       /\ \E kind \in {"like", "unlike"}, user \in UserNames,
             eventId \in LikeEvents : LikeStart(p, kind, user, eventId)
    \/ LikeGetEvent(p)
    \/ LikeGetUser(p)
    \/ LikeUpdateUser(p)
    \/ LikeUpdateEvent(p)

\* ------------------------------------------------------------------------
\* validateBankAccount applied to a country and a data set
\* ------------------------------------------------------------------------
VARIABLES
  valCountry,  \* the country validateBankAccount was called with
  valData,     \* the accountData it was called with
  valRet       \* what it returned

valVars == << valCountry, valData, valRet >>

\* the entry of BANK_ACCOUNT_FIELDS that validateBankAccount uses
FieldsOf(country) ==
  IF country \in SchemaCountries THEN BANK_ACCOUNT_FIELDS[country]
  ELSE BANK_ACCOUNT_FIELDS["DEFAULT"]

RECURSIVE Shortest(_)
\* the shortest string that an anchored pattern accepts
Shortest(tokens) ==
  IF tokens = << >> THEN << >>
  ELSE LET t == Head(tokens)
           n == CHOOSE m \in t.counts : \A k \in t.counts : m <= k
           c == CHOOSE x \in t.cls : TRUE
       IN [i \in 1..n |-> c] \o Shortest(Tail(tokens))

\* what is submitted for a field: nothing, the empty string, a value that no
\* pattern accepts, a value that the pattern of the field accepts
FieldKinds == { "absent", "empty", "malformed", "wellformed" }

\* per country and required field, a value that the pattern of the field
\* accepts ("x" when the field has no pattern)
WellFormedSamples ==
  [ country \in SchemaCountries \cup { UnlistedCountry } |->
     LET patterns == VALIDATION_PATTERNS(country)
         required == FieldsOf(country).required
     IN [ f \in { required[i] : i \in 1..Len(required) } |->
            LET own == { i \in 1..Len(patterns) : patterns[i].field = f }
            IN IF own = {} THEN << "x" >>
               ELSE Shortest(patterns[CHOOSE i \in own : TRUE].pattern) ] ]

FieldValue(country, field, kind) ==
  CASE kind = "empty" -> << >>
    [] kind = "malformed" -> << "!" >>
    [] OTHER -> WellFormedSamples[country][field]

\* the data sets submitted for a country: every required field absent or
\* present with one of its values
DataSets(country) ==
  LET required == { FieldsOf(country).required[i] :
                      i \in 1..Len(FieldsOf(country).required) }
  IN { [ f \in { g \in required : kinds[g] # "absent" } |->
           FieldValue(country, f, kinds[f]) ] :
       kinds \in [required -> FieldKinds] }

Validate(country, accountData) ==
  /\ valCountry' = country
  /\ valData' = accountData
  /\ valRet' = validateBankAccount(country, accountData)

\* one call in a behaviour
ValidateNext ==
  /\ valCountry = "none"
  /\ \E country \in SchemaCountries \cup { UnlistedCountry } :
       \E accountData \in DataSets(country) : Validate(country, accountData)

vars == << userVars, bankVars, routeVars, codecVars, appVars, flagVars,
          eventVars,
          valVars,
          mongoVars,
          evRouteVars,
          initVars,
          likeVars >>

Init ==
  /\ usersFile = << >>
  /\ nextUserId = 1
  /\ pc = [p \in Procs |-> "idle"]
  /\ call = [p \in Procs |-> NoCall]
  /\ snap = [p \in Procs |-> << >>]
  /\ pending = [p \in Procs |-> << >>]
  /\ ret = [p \in Procs |-> NoRet]
  /\ ncalls = 0
  /\ created = {}
  /\ lastWriter = 0
  /\ userNow = 1
  /\ prevUsers = << >>
  /\ bankAccountsFile = << >>
  /\ payoutsFile = << >>
  /\ nextBankId = 1
  /\ bankCall = NoCall
  /\ bankRet = NoRet
  /\ prevBank = << >>
  /\ prevPayouts = << >>
  /\ nbank = 0
  /\ bankNow = 1
  /\ req = [ kind |-> "none" ]
  /\ resp = [ status |-> 0, error |-> "", accounts |-> << >>, payouts |-> << >> ]
  /\ nreq = 0
  /\ codecPc = "idle"
  /\ codecIn = << >>
  /\ codecEnc = << >>
  /\ codecOut = [ ok |-> FALSE, text |-> << >> ]
  /\ userAppsFile = << >>
  /\ nextInstId = 1
  /\ appNow = 1
  /\ appPc = [p \in Procs |-> "idle"]
  /\ appCall = [p \in Procs |-> NoCall]
  /\ appPending = [p \in Procs |-> << >>]
  /\ appRet = [p \in Procs |-> NoRet]
  /\ appPrev = << >>
  /\ napps = 0
  /\ flagPc = "init"
  /\ envFlag = FlagUnset
  /\ routeDb = [m \in ModuleNames |-> "none"]
  /\ startupDb = "none"
  /\ reqLog = << >>
  /\ eventsFile = [i \in 1..NumEvents |-> SeedEvent(i)]
  /\ eventNow = 1
  /\ eventCall = NoCall
  /\ eventRet = NoRet
  /\ nevents = 0
  /\ mongoUsers = << >>
  /\ nextMongoId = 1
  /\ mongoNow = 1
  /\ mongoPc = [p \in Procs |-> "idle"]
  /\ mongoCall = [p \in Procs |-> NoCall]
  /\ mongoRet = [p \in Procs |-> NoRet]
  /\ mongoLog = << >>
  /\ nmongo = 0
  /\ eventDocs = << >>
  /\ nextEventId = 1
  /\ evRouteNow = 1
  /\ evReq = [ kind |-> "none" ]
  /\ evResp = [ status |-> 0, error |-> "", event |-> << >> ]
  /\ prevEventDocs = << >>
  /\ nevreq = 0
  /\ likedEvents = [u \in UserNames |-> << >>]
  /\ likeCount = [e \in LikeEvents |-> 0]
  /\ likePc = [p \in Procs |-> "idle"]
  /\ likeReq = [p \in Procs |->
                 [kind |-> "like", user |-> "u1", eventId |-> "event_1"]]
  /\ likeLocal = [p \in Procs |-> [user |-> << >>, event |-> 0]]
  /\ likeRet = [p \in Procs |-> 0]
  /\ nlikes = 0
  /\ initPc = "ensureDir"
  /\ dirExists = FALSE
  /\ usersExists = FALSE
  /\ valCountry = "none"
  /\ valData = << >>
  /\ valRet = [ valid |-> TRUE, error |-> "", fields |-> << >> ]

\* concurrent createUser / updateUser calls on users.json
SpecUsers ==
  Init /\ [][UsersNext /\ UNCHANGED << bankVars, routeVars, codecVars, appVars,
      flagVars, eventVars,
      valVars,
      mongoVars,
      evRouteVars,
      initVars,
      likeVars >>]_vars

\* bank-account store calls, one after the other
SpecBank ==
  Init /\ [][BankNext /\ UNCHANGED << userVars, routeVars, codecVars, appVars,
      flagVars, eventVars,
      valVars,
      mongoVars,
      evRouteVars,
      initVars,
      likeVars >>]_vars

\* payout initiation among bank-account creations and deletions
SpecPayout ==
  Init /\ [][PayoutNext /\ UNCHANGED << userVars, routeVars, codecVars, appVars,
      flagVars, eventVars,
      valVars,
      mongoVars,
      evRouteVars,
      initVars,
      likeVars >>]_vars

\* requests to the finance routes, one after the other
SpecRoutes ==
  Init /\ [][RoutesNext /\ UNCHANGED << userVars, bankCall, bankRet, prevBank,
                                        prevPayouts, nbank, codecVars, appVars,
      flagVars, eventVars,
      valVars,
      mongoVars,
      evRouteVars,
      initVars,
      likeVars >>]_vars

\* encrypt applied to a text, then decrypt applied to the result
SpecCodec ==
  Init /\ [][CodecNext /\ UNCHANGED << userVars, bankVars, routeVars, appVars,
      flagVars, eventVars,
      valVars,
      mongoVars,
      evRouteVars,
      initVars,
      likeVars >>]_vars

\* overlapping installApp / uninstallApp calls on userApps.json, with saves
\* of the file that may fail
SpecApps ==
  Init /\ [][AppsNext /\ UNCHANGED << userVars, bankVars, routeVars, codecVars,
      flagVars, eventVars,
      valVars,
      mongoVars,
      evRouteVars,
      initVars,
      likeVars >>]_vars

\* user-app store calls, one after the other
SpecAppsSeq ==
  Init /\ [][AppsSeqNext /\ UNCHANGED << userVars, bankVars, routeVars, codecVars,
      flagVars, eventVars,
      valVars,
      mongoVars,
      evRouteVars,
      initVars,
      likeVars >>]_vars

\* whole createUser / updateUser calls, one after the other
SpecUsersSeq ==
  Init /\ [][UsersSeqNext /\ UNCHANGED << bankVars, routeVars, codecVars, appVars,
                                          flagVars, eventVars,
      valVars,
      mongoVars,
      evRouteVars,
      initVars,
      likeVars >>]_vars

\* whole createUser / updateUser calls while reads and writes of users.json
\* may fail
SpecUsersIO ==
  Init /\ [][UsersIONext /\ UNCHANGED << bankVars, routeVars, codecVars, appVars,
                                         flagVars, eventVars,
      valVars,
      mongoVars,
      evRouteVars,
      initVars,
      likeVars >>]_vars

\* one process: environment, route modules loaded, start-up, requests
SpecFlag ==
  Init /\ [][FlagNext /\ UNCHANGED << userVars, bankVars, routeVars, codecVars,
                                      appVars, eventVars,
      valVars,
      mongoVars,
      evRouteVars,
      initVars,
      likeVars >>]_vars

\* overlapping createUser / updateUser calls on the DocumentStore
SpecMongoUsers ==
  Init /\ [][MongoUsersNext /\ UNCHANGED << userVars, bankVars, routeVars,
      codecVars, appVars, flagVars, eventVars, valVars,
      evRouteVars,
      initVars,
      likeVars >>]_vars

\* requests to the events routes, one after the other
SpecEventRoutes ==
  Init /\ [][EventRoutesNext /\ UNCHANGED << userVars, bankVars, routeVars,
      codecVars, appVars, flagVars, eventVars, valVars, mongoVars,
      initVars,
      likeVars >>]_vars

\* createUser / updateUser calls on one of the two stores: a behaviour calls
\* the FileStore or the DocumentStore, not both
UserStoresNext ==
  \/ /\ nmongo = 0
     /\ UsersSeqNext
     /\ UNCHANGED mongoVars
  \/ /\ ncalls = 0
     /\ MongoUsersNext
     /\ UNCHANGED userVars

SpecUserStores ==
  Init /\ [][UserStoresNext /\ UNCHANGED << bankVars, routeVars, codecVars,
      appVars, flagVars, eventVars, valVars, evRouteVars,
      initVars,
      likeVars >>]_vars

\* init() interleaved with createUser calls
SpecInitRace ==
  Init /\ [][InitRaceNext /\ UNCHANGED << bankVars, routeVars, codecVars,
      appVars, flagVars, eventVars, valVars, mongoVars, evRouteVars,
      likeVars >>]_vars

\* like and unlike requests, interleaved at their store calls
SpecLikes ==
  Init /\ [][LikesNext /\ UNCHANGED << userVars, bankVars, routeVars,
      codecVars, appVars, flagVars, eventVars, valVars, mongoVars,
      evRouteVars, initVars >>]_vars

\* one validateBankAccount call
SpecValidate ==
  Init /\ [][ValidateNext /\ UNCHANGED << userVars, bankVars, routeVars,
      codecVars, appVars, flagVars, eventVars,
      mongoVars,
      evRouteVars,
      initVars,
      likeVars >>]_vars

\* updateEvent and getPublicEvents calls, one after the other, as time passes
SpecEvents ==
  Init /\ [][EventsNext /\ UNCHANGED << userVars, bankVars, routeVars, codecVars,
                                        appVars, flagVars,
      valVars,
      mongoVars,
      evRouteVars,
      initVars,
      likeVars >>]_vars


\* ------------------------------------------------------------------------
\* Properties of the users collection (SpecUsers)
\* ------------------------------------------------------------------------
IsDone(p, op) == pc[p] = "done" /\ call[p].op = op
Succeeded(p, op) == IsDone(p, op) /\ ret[p].success

\* index in users of the record with this id, 0 when absent
IndexOfUser(users, id) == FindIndex(users, LAMBDA u : u.id = id)

\* the patch of call p is missing from users: some patched key of the target
\* does not hold the patched value
PatchMissing(users, p) ==
  LET i == IndexOfUser(users, call[p].id) IN
    i # 0 /\ \E k \in DOMAIN call[p].updates : users[i][k] # call[p].updates[k]

PatchPresent(users, p) ==
  LET i == IndexOfUser(users, call[p].id) IN
    i # 0 /\ \A k \in DOMAIN call[p].updates : users[i][k] = call[p].updates[k]

\* C3: a lost update is reachable. Whenever two updateUser calls with disjoint
\* patches have both returned success after reading the same collection, the
\* file is the collection read by the call that saved last with only that
\* call's patch applied: every key the other call patched holds the value it
\* had in the collection that was read.
C3_LastSaveOverwritesWholeFile ==
  \A p \in Procs, q \in Procs :
    ( /\ p # q
      /\ Succeeded(p, "updateUser") /\ Succeeded(q, "updateUser")
      /\ DOMAIN call[p].updates \cap DOMAIN call[q].updates = {}
      /\ snap[p] = snap[q]
      /\ lastWriter = q )
    => /\ Len(usersFile) = Len(snap[q])
       /\ \A i \in 1..Len(usersFile) :
            usersFile[i] = IF snap[q][i].id = call[q].id
                           THEN [k \in DOMAIN snap[q][i] \cup DOMAIN call[q].updates |->
                                   IF k = "updatedAt" THEN call[q].at
                                   ELSE IF k \in DOMAIN call[q].updates
                                   THEN call[q].updates[k] ELSE snap[q][i][k]]
                           ELSE snap[q][i]

\* C3 witness: both calls returned success, the patches are disjoint, the
\* file holds the patch of q and has lost the patch of p.
C3_Witness_LostUpdate ==
  \E p \in Procs, q \in Procs :
    /\ p # q
    /\ Succeeded(p, "updateUser") /\ Succeeded(q, "updateUser")
    /\ DOMAIN call[p].updates \cap DOMAIN call[q].updates = {}
    /\ PatchPresent(usersFile, q)
    /\ PatchMissing(usersFile, p)

\* C4 as claimed: a user for which createUser returned success is in the
\* users collection in every later state.
C4_CreatedUserStays ==
  \A id \in created : id \in UserIds(usersFile)

\* C4 amended: every save writes back all the records of the collection the
\* call read, so a created user leaves the file only through the save of a
\* call whose read did not contain it (a call that read before the create
\* was saved).
C4_RemovedOnlyByStaleSave ==
  [][ /\ \A p \in Procs :
           (pc[p] = "saving" /\ pc'[p] = "done")
             => UserIds(snap[p]) \subseteq UserIds(usersFile')
      /\ \A id \in created :
           (id \in UserIds(usersFile) /\ id \notin UserIds(usersFile'))
             => \E p \in Procs : /\ pc[p] = "saving" /\ pc'[p] = "done"
                                 /\ id \notin UserIds(snap[p]) ]_userVars

\* C4 witness: a created user is still stored after a later call, which read
\* it, deactivated a user and saved.
C4_Witness_KeptAcrossLaterSave ==
  \E id \in created, p \in Procs :
    /\ Succeeded(p, "updateUser")
    /\ lastWriter = p
    /\ "isActive" \in DOMAIN call[p].updates /\ ~call[p].updates.isActive
    /\ id \in UserIds(snap[p])
    /\ id \in UserIds(usersFile)

\* C5, first clause as claimed: createUser fails with the duplicate-email
\* error exactly when an ACTIVE user with the same email (ignoring case) is
\* in the collection.
C5_DuplicateIffActiveUser ==
  \A p \in Procs :
    IsDone(p, "createUser") =>
      ( (~ret[p].success /\ ret[p].error = DuplicateEmailError)
        <=> \E i \in 1..Len(snap[p]) :
              /\ snap[p][i].isActive
              /\ toLowerCase(snap[p][i].email) = toLowerCase(call[p].userData.email) )

\* C5 amended: createUser fails with the duplicate-email error exactly when
\* the collection it read holds a user, active or not, with the same email
\* ignoring case; otherwise it succeeds, the record it stores has
\* isActive = TRUE and the lower-cased email, and the collection it writes is
\* the collection it read plus that one record.
C5_DuplicateIffAnyUser ==
  \A p \in Procs :
    IsDone(p, "createUser") =>
      LET dup == \E i \in 1..Len(snap[p]) :
                   toLowerCase(snap[p][i].email) = toLowerCase(call[p].userData.email)
      IN /\ dup => (~ret[p].success /\ ret[p].error = DuplicateEmailError)
         /\ ~dup =>
              /\ ret[p].success
              /\ Len(pending[p]) = Len(snap[p]) + 1
              /\ SubSeq(pending[p], 1, Len(snap[p])) = snap[p]
              /\ pending[p][Len(pending[p])].isActive
              /\ pending[p][Len(pending[p])].email = toLowerCase(call[p].userData.email)
              /\ pending[p][Len(pending[p])].id \notin UserIds(snap[p])
              /\ ret[p].user = Without(pending[p][Len(pending[p])], { "password" })
              /\ (lastWriter = p => usersFile = pending[p])

\* C5 witness: createUser failed with the duplicate-email error although the
\* only user with that email is inactive.
C5_Witness_InactiveDuplicate ==
  \E p \in Procs :
    /\ IsDone(p, "createUser")
    /\ ~ret[p].success /\ ret[p].error = DuplicateEmailError
    /\ \A i \in 1..Len(snap[p]) :
         toLowerCase(snap[p][i].email) = toLowerCase(call[p].userData.email)
           => ~snap[p][i].isActive

\* C6 as claimed: no two user records have emails that are equal ignoring
\* case.
C6_EmailsUniqueIgnoringCase ==
  \A i \in 1..Len(usersFile), j \in 1..Len(usersFile) :
    i # j => toLowerCase(usersFile[i].email) # toLowerCase(usersFile[j].email)

\* ------------------------------------------------------------------------
\* Properties of the bank accounts (SpecBank) and payouts (SpecPayout)
\* ------------------------------------------------------------------------
\* positions of the accounts of userId that are active and primary
ActivePrimary(bankAccounts, userId) ==
  { i \in 1..Len(bankAccounts) :
      /\ bankAccounts[i].userId = userId
      /\ Truthy(bankAccounts[i], "isActive")
      /\ Truthy(bankAccounts[i], "isPrimary") }

\* C1 as claimed: after any sequence of createBankAccount, updateBankAccount,
\* deleteBankAccount and setPrimaryBankAccount calls every user has at most
\* one bank account that is both primary and active.
C1_AtMostOneActivePrimary ==
  \A u \in UserNames : Cardinality(ActivePrimary(bankAccountsFile, u)) <= 1

\* C2: initiatePayout never returns success for an amount above the available
\* balance of the financial summary, and a call that fails returns one of the
\* three errors and leaves the payouts collection as it was.
C2_PayoutOnlyWithinBalance ==
  bankCall.op = "initiatePayout" =>
    /\ bankRet.success =>
         /\ bankCall.amount <=
              getFinancialSummary(prevPayouts, bankCall.userId).availableBalance
         /\ Len(payoutsFile) = Len(prevPayouts) + 1
         /\ SubSeq(payoutsFile, 1, Len(prevPayouts)) = prevPayouts
    /\ ~bankRet.success =>
         /\ payoutsFile = prevPayouts
         /\ bankRet.error \in { InsufficientBalanceError, BelowMinimumError,
                                InvalidAccountError }
    /\ bankCall.amount >
         getFinancialSummary(prevPayouts, bankCall.userId).availableBalance
         => bankRet.error = InsufficientBalanceError

\* C2 witness: a payout above the balance was refused while the collection
\* already held a payout, and the collection is unchanged.
C2_Witness_RefusedAboveBalance ==
  /\ bankCall.op = "initiatePayout"
  /\ ~bankRet.success /\ bankRet.error = InsufficientBalanceError
  /\ bankCall.amount >
       getFinancialSummary(prevPayouts, bankCall.userId).availableBalance
  /\ Len(prevPayouts) > 0
  /\ payoutsFile = prevPayouts

SetPrimaryTargetEligible ==
  \E i \in 1..Len(prevBank) :
    /\ prevBank[i].id = bankCall.id
    /\ prevBank[i].userId = bankCall.userId
    /\ Truthy(prevBank[i], "isActive")

\* C8: setPrimaryBankAccount returns the not-found error when the target does
\* not exist, belongs to another user or is inactive, and then the
\* bank-account collection is unchanged.
C8_SetPrimaryNotFoundNoChange ==
  (bankCall.op = "setPrimaryBankAccount" /\ ~SetPrimaryTargetEligible) =>
    /\ ~bankRet.success
    /\ bankRet.error = BankNotFoundError
    /\ bankAccountsFile = prevBank

\* C8 witness: the target is a deleted account of the user, the user has
\* another account that is active and primary, and the call failed.
C8_Witness_InactiveTarget ==
  /\ bankCall.op = "setPrimaryBankAccount"
  /\ ~bankRet.success
  /\ \E i \in 1..Len(prevBank) :
       /\ prevBank[i].id = bankCall.id
       /\ prevBank[i].userId = bankCall.userId
       /\ ~Truthy(prevBank[i], "isActive")
  /\ ActivePrimary(prevBank, bankCall.userId) # {}

Contains(hay, needle) ==
  \E i \in 0..(Len(hay) - Len(needle)) : SubSeq(hay, i + 1, i + Len(needle)) = needle

\* the stored record with this id
StoredAccount(id) == bankAccountsFile[getBankAccountById(bankAccountsFile, id)]

\* the account number a stored record holds, in plaintext
PlainAccountNumber(account) == decrypt(account.accountNumber).text

\* C9 as claimed: no response of POST, GET or PUT /bank-accounts and no payout
\* snapshot contains the complete plaintext account number; the account
\* number of a POST response is the mask followed by the last 4 characters of
\* the submitted number, and at least one character of the number is hidden.
C9_ResponsesHideAccountNumber ==
  /\ (req.kind = "POST" /\ resp.status = 200 /\ HasValue(req.body, "accountNumber"))
       => LET plain == req.body.accountNumber
              shown == resp.accounts[1].accountNumber
          IN /\ shown = AccountMaskPrefix \o SliceLast(plain, 4)
             /\ Len(SliceLast(plain, 4)) < Len(plain)
             /\ ~Contains(shown, plain)
  /\ (req.kind \in { "GET", "PUT" } /\ resp.status = 200)
       => \A i \in 1..Len(resp.accounts) :
            HasValue(StoredAccount(resp.accounts[i].id), "accountNumber")
              => ~Contains(resp.accounts[i].accountNumber,
                           PlainAccountNumber(StoredAccount(resp.accounts[i].id)))
  /\ (req.kind = "PAYOUT" /\ resp.status = 200)
       => (HasValue(StoredAccount(req.id), "accountNumber")
             => ~Contains(resp.payouts[1].bankAccountInfo.accountNumber,
                          PlainAccountNumber(StoredAccount(req.id))))

\* the request wrote plain as field f of the stored record rec: the record
\* holds an output of encrypt for it, not the text itself
HoldsEncrypted(rec, f, plain) ==
  /\ HasValue(rec, f)
  /\ rec[f] # plain
  /\ \E iv \in Ivs : rec[f] = encrypt(plain, iv)
  /\ decrypt(rec[f]) = [ ok |-> TRUE, text |-> plain ]

\* C10: every record written by POST /bank-accounts or PUT /bank-accounts/:id
\* holds, for each of the six sensitive fields that is present and not empty,
\* an output of encrypt, never a submitted plaintext; the fields a request
\* submitted are stored as the encryption of the submitted values.
C10_SensitiveFieldsStoredEncrypted ==
  /\ \A i \in 1..Len(bankAccountsFile) : \A f \in PostSensitiveFields :
       HasValue(bankAccountsFile[i], f)
         => /\ bankAccountsFile[i][f] \notin Plaintexts
            /\ decrypt(bankAccountsFile[i][f]).ok
            /\ decrypt(bankAccountsFile[i][f]).text \in Plaintexts
            /\ \E iv \in Ivs :
                 bankAccountsFile[i][f] =
                   encrypt(decrypt(bankAccountsFile[i][f]).text, iv)
  /\ (req.kind = "POST" /\ resp.status = 200)
       => \A f \in PostSensitiveFields :
            HasValue(req.body, f)
              => HoldsEncrypted(bankAccountsFile[Len(bankAccountsFile)], f, req.body[f])
  /\ (req.kind = "PUT" /\ resp.status = 200)
       => \A f \in PostSensitiveFields :
            HasValue(req.body, f)
              => HoldsEncrypted(StoredAccount(req.id), f, req.body[f])

\* C10 witness: a PUT wrote a new bsb into a stored account and a POST-made
\* record with an encrypted account number is in the store.
C10_Witness_PutWroteBsb ==
  /\ req.kind = "PUT" /\ resp.status = 200
  /\ HasValue(req.body, "bsb")
  /\ HasValue(StoredAccount(req.id), "bsb")
  /\ HasValue(StoredAccount(req.id), "accountNumber")

\* ------------------------------------------------------------------------
\* Properties of the field-level encryption (SpecCodec)
\* ------------------------------------------------------------------------
\* a string every code unit of which belongs to a character
WellFormed(text) == \A i \in 1..Len(text) : text[i] # LoneSurrogate

\* C11 as stated: decrypt(encrypt(x)) = x for every non-empty string x,
\* strings containing ':' included
C11_RoundTripEveryString ==
  codecPc = "decrypted" => codecOut.ok /\ codecOut.text = codecIn

\* C11 amended: decrypt(encrypt(x)) = x for every non-empty string x without
\* unpaired surrogates, strings containing ':' included; a string with an
\* unpaired surrogate comes back with U+FFFD in its place
C11_RoundTripWellFormed ==
  codecPc = "decrypted" =>
    /\ codecOut.ok
    /\ WellFormed(codecIn) => codecOut.text = codecIn
    /\ codecOut.text =
         [i \in 1..Len(codecIn) |->
            IF codecIn[i] = LoneSurrogate THEN ReplacementChar ELSE codecIn[i]]

\* a text with ':' that fills a whole cipher block came back unchanged
C11_Witness_ColonTextRestored ==
  /\ codecPc = "decrypted"
  /\ codecIn = Filler \o << ":" >>
  /\ codecOut.ok
  /\ codecOut.text = codecIn

\* ------------------------------------------------------------------------
\* Properties of the user-app installations (SpecAppsSeq, SpecApps)
\* ------------------------------------------------------------------------
AppDone(p, op) == appPc[p] = "done" /\ appCall[p].op = op

\* the positions of the rows of a pair in an array of installation rows
PairRows(userApps, userId, appId) ==
  { i \in 1..Len(userApps) :
      userApps[i].userId = userId /\ userApps[i].appId = appId }

\* C12: installApp fails with the already-installed error when the pair has
\* an active row; an installApp that follows an uninstallApp of the pair
\* returns an installation carrying the id of the original row, and the pair
\* still has one row only
C12_ReinstallReturnsOriginalId ==
  AppDone(1, "installApp") =>
    LET c    == appCall[1]
        rows == PairRows(appPrev, c.userId, c.appId)
    IN /\ isAppInstalled(appPrev, c.userId, c.appId) =>
            appRet[1] = [ success |-> FALSE, error |-> AlreadyInstalledError ]
       /\ (rows # {} /\ ~isAppInstalled(appPrev, c.userId, c.appId)) =>
            /\ appRet[1].success
            /\ \A i \in rows : appRet[1].installation.id = appPrev[i].id
            /\ Cardinality(PairRows(userAppsFile, c.userId, c.appId)) = 1

\* C13: userApps.json never holds two rows of the same (userId, appId) pair
C13_OneRowPerPair ==
  \A i, j \in 1..Len(userAppsFile) :
     (userAppsFile[i].userId = userAppsFile[j].userId
      /\ userAppsFile[i].appId = userAppsFile[j].appId) => i = j

\* two overlapping installApp calls of one pair both returned success and
\* the file holds a single row
C13_Witness_OverlappingInstalls ==
  \E p, q \in Procs :
     /\ p # q
     /\ AppDone(p, "installApp") /\ AppDone(q, "installApp")
     /\ appRet[p].success /\ appRet[q].success
     /\ appCall[p].userId = appCall[q].userId
     /\ appCall[p].appId = appCall[q].appId
     /\ appCall[p].readOk /\ appCall[q].readOk
     /\ Len(userAppsFile) = 1

\* C20: uninstallApp fails with the not-installed error and changes nothing
\* when the pair has no active row; otherwise it sets isActive = false and
\* uninstalledAt on that row, removes no row and leaves every other row as
\* it was
C20_UninstallFrame ==
  AppDone(1, "uninstallApp") =>
    LET c == appCall[1] IN
    IF ~isAppInstalled(appPrev, c.userId, c.appId)
    THEN /\ appRet[1] = [ success |-> FALSE, error |-> NotInstalledError ]
         /\ userAppsFile = appPrev
    ELSE /\ appRet[1].success
         /\ Len(userAppsFile) = Len(appPrev)
         /\ \A i \in 1..Len(appPrev) :
              IF i \in PairRows(appPrev, c.userId, c.appId) /\ appPrev[i].isActive
              THEN /\ userAppsFile[i].isActive = FALSE
                   /\ DOMAIN userAppsFile[i] = DOMAIN appPrev[i] \cup { "uninstalledAt" }
                   /\ userAppsFile[i].uninstalledAt = c.at
                   /\ \A k \in DOMAIN appPrev[i] \ { "isActive", "uninstalledAt" } :
                        userAppsFile[i][k] = appPrev[i][k]
              ELSE userAppsFile[i] = appPrev[i]

\* an uninstallApp succeeded on the second row while the first row, of
\* another pair of the same user, stayed active
C20_Witness_OtherPairKept ==
  /\ AppDone(1, "uninstallApp")
  /\ appRet[1].success
  /\ Len(userAppsFile) >= 2
  /\ userAppsFile[1].isActive
  /\ userAppsFile[1].userId = appCall[1].userId
  /\ ~userAppsFile[2].isActive

\* ------------------------------------------------------------------------
\* FileStore against DocumentStore
\* ------------------------------------------------------------------------
\* C14: given the same call, the DocumentStore returns the same outcome
\* (success or failure) and a result of the same shape as the FileStore, for
\* the bank-account, payout, financial-summary and user-app methods
C14_StoresAgree ==
  /\ bankCall.op # "none" => MongoRet(bankCall).success = bankRet.success
  /\ appPc[1] = "done" =>
       /\ MongoRet(appCall[1]).success = appRet[1].success
       /\ DOMAIN MongoRet(appCall[1]) = DOMAIN appRet[1]
  /\ \A u \in UserNames :
       /\ DOMAIN Mongo_getFinancialSummary(u) =
            DOMAIN getFinancialSummary(payoutsFile, u)
       /\ Len(Mongo_getUserBankAccounts(u)) =
            Len(getUserBankAccounts(bankAccountsFile, u))

\* ------------------------------------------------------------------------
\* Store selection (SpecFlag)
\* ------------------------------------------------------------------------
\* C15: whatever the value of USE_MONGODB, the route modules, the
\* authentication middleware and the server start-up of one process use the
\* same store
C15_OneStorePerProcess ==
  \A m \in ModuleNames :
     routeDb[m] # "none" =>
       /\ startupDb # "none" => startupDb = routeDb[m]
       /\ \A i \in 1..Len(reqLog) : reqLog[i].authStore = routeDb[m]

\* ------------------------------------------------------------------------
\* Properties of whole users calls (SpecUsersIO, SpecUsersSeq)
\* ------------------------------------------------------------------------
\* C16: a createUser or updateUser call whose read of users.json failed does
\* not return success, and the file does not lose a user it held
C16_ReadFailureNotSwallowed ==
  ( /\ pc[1] = "done"
    /\ call[1].op \in { "createUser", "updateUser" }
    /\ "readOk" \in DOMAIN call[1]
    /\ ~call[1].readOk )
  => /\ ~ret[1].success
     /\ UserIds(prevUsers) \subseteq UserIds(usersFile)

\* a patch that has been given to a whole updateUser call
SeqUpdateDone ==
  /\ pc[1] = "done"
  /\ call[1].op = "updateUser"
  /\ "readOk" \in DOMAIN call[1]

\* C17: updateUser(id, patch) on an existing id replaces exactly the
\* top-level keys of the patch, a nested object as a whole, keeps the other
\* keys and the other users, and sets updatedAt to the time of the call even
\* when the patch carries an updatedAt; on an absent id it returns the
\* not-found error and changes nothing
C17_UpdateUserFrame ==
  SeqUpdateDone =>
    LET c   == call[1]
        idx == IndexOfUser(prevUsers, c.id)
    IN IF idx = 0
       THEN /\ ret[1] = [ success |-> FALSE, error |-> UserNotFoundError ]
            /\ usersFile = prevUsers
       ELSE /\ ret[1].success
            /\ Len(usersFile) = Len(prevUsers)
            /\ \A i \in 1..Len(prevUsers) : i # idx => usersFile[i] = prevUsers[i]
            /\ DOMAIN usersFile[idx] =
                 DOMAIN prevUsers[idx] \cup DOMAIN c.updates \cup { "updatedAt" }
            /\ \A k \in DOMAIN usersFile[idx] :
                 usersFile[idx][k] =
                   IF k = "updatedAt" THEN c.at
                   ELSE IF k \in DOMAIN c.updates THEN c.updates[k]
                   ELSE prevUsers[idx][k]

\* a patch with a nested profile and its own updatedAt was applied to a
\* stored user: the profile is the one of the patch, without the stored
\* website key, and updatedAt is the time of the call
C17_Witness_NestedAndStamp ==
  /\ SeqUpdateDone
  /\ ret[1].success
  /\ DOMAIN call[1].updates = { "profile", "updatedAt" }
  /\ LET idx == IndexOfUser(usersFile, call[1].id) IN
       /\ "website" \in DOMAIN prevUsers[idx].profile
       /\ usersFile[idx].profile = [ bio |-> << "x" >> ]
       /\ usersFile[idx].updatedAt = call[1].at
       /\ usersFile[idx].updatedAt # call[1].updates.updatedAt

\* ------------------------------------------------------------------------
\* Properties of getPublicEvents (SpecEvents)
\* ------------------------------------------------------------------------
\* the text of an optional filter, "" when it is not given
FilterText(options, key) == IF key \in DOMAIN options THEN options[key] ELSE << >>

\* a stored text contains the filter text, whatever the case of the letters
HasText(event, key, text) ==
  /\ key \in DOMAIN event
  /\ \E i \in 1..Len(event[key]) :
       /\ i + Len(text) - 1 <= Len(event[key])
       /\ \A j \in 1..Len(text) :
            LowerChar(event[key][i + j - 1]) = LowerChar(text[j])

\* the event is published, active, starts after now and passes the filters
\* that are given
Qualifies(event, options, now) ==
  /\ event.status = "published"
  /\ event.isActive
  /\ event.startDate > now
  /\ FilterText(options, "category") # << >> =>
       HasText(event, "category", options.category)
  /\ FilterText(options, "location") # << >> =>
       HasText(event, "location", options.location)
  /\ FilterText(options, "search") # << >> =>
       \E key \in { "title", "description", "category" } :
          HasText(event, key, options.search)

QualifyingEvents(options) ==
  { i \in 1..Len(eventsFile) : Qualifies(eventsFile[i], options, eventNow) }

\* page is the part [first, first + count) of the qualifying events ordered
\* by ascending start date (positions counted from 0)
IsPageOf(page, options, first, count) ==
  LET Q    == QualifyingEvents(options)
      n    == Cardinality(Q)
      from == IF first < 0 THEN 0 ELSE first
      to   == IF first + count > n THEN n ELSE first + count
  IN /\ Len(page) = IF to > from THEN to - from ELSE 0
     /\ \A k \in 1..Len(page) : \E i \in Q : eventsFile[i] = page[k]
     /\ \A k, l \in 1..Len(page) :
          /\ k < l => page[k].startDate <= page[l].startDate
          /\ k # l => page[k].id # page[l].id
     /\ \A k \in 1..Len(page) :
          LET pos     == from + k - 1
              earlier == Cardinality({ i \in Q : eventsFile[i].startDate
                                                   < page[k].startDate })
              upTo    == Cardinality({ i \in Q : eventsFile[i].startDate
                                                   <= page[k].startDate })
          IN earlier <= pos /\ pos < upTo

\* C18 as stated: the result is the part [offset, offset + limit) of the
\* qualifying events in ascending start-date order, offset 0 and limit 10
\* when they are not given
C18_PageOfGivenLimit ==
  eventCall.op = "getPublicEvents" =>
    LET o == eventCall.options IN
    IsPageOf(eventRet, o,
             IF "offset" \in DOMAIN o THEN o.offset ELSE 0,
             IF "limit" \in DOMAIN o THEN o.limit ELSE DefaultLimit)

\* what getPublicEvents does return: for an offset that is not negative, the
\* part [offset, offset + limit) of the qualifying events in ascending
\* start-date order, with offset 0 when it is not given and limit 10 when it
\* is not given or is 0
PageOfEffectiveLimit ==
  ( /\ eventCall.op = "getPublicEvents"
    /\ "offset" \in DOMAIN eventCall.options => eventCall.options.offset >= 0 )
  => LET o == eventCall.options IN
     IsPageOf(eventRet, o,
              IF "offset" \in DOMAIN o THEN o.offset ELSE 0,
              IF "limit" \in DOMAIN o /\ o.limit # 0 THEN o.limit
              ELSE DefaultLimit)

\* a filtered query returned the second page of three events while more
\* events qualified, after an event had been withdrawn by updateEvent
SecondPageReturned ==
  /\ eventCall.op = "getPublicEvents"
  /\ DOMAIN eventCall.options = { "search", "offset", "limit" }
  /\ eventCall.options.offset = 2
  /\ eventCall.options.limit = 3
  /\ Len(eventRet) = 3
  /\ Cardinality(QualifyingEvents(eventCall.options)) > 5
  /\ \E i \in 1..Len(eventsFile) : ~eventsFile[i].isActive

\* ------------------------------------------------------------------------
\* Properties of validateBankAccount (SpecValidate)
\* ------------------------------------------------------------------------
\* the required fields of the country that the data set has no value for
MissingRequired(country, accountData) ==
  { f \in { FieldsOf(country).required[i] :
              i \in 1..Len(FieldsOf(country).required) } :
      f \notin DOMAIN accountData \/ accountData[f] = << >> }

\* C21: when a required field of the country is absent or empty,
\* validateBankAccount fails with the missing-fields error, and the error
\* names every missing required field once and nothing else, whatever the
\* format of the fields that are present
C21_NamesEveryMissingField ==
  (valCountry # "none" /\ MissingRequired(valCountry, valData) # {}) =>
    /\ ~valRet.valid
    /\ valRet.error = "Missing required fields"
    /\ { valRet.fields[i] : i \in 1..Len(valRet.fields) }
         = MissingRequired(valCountry, valData)
    /\ Len(valRet.fields) = Cardinality(MissingRequired(valCountry, valData))

\* C21 witness: two required fields are missing, one empty and one absent,
\* a field that is present has a value its pattern rejects, and the error
\* names the two missing fields
C21_Witness_TwoMissingOneMalformed ==
  /\ valCountry = "US"
  /\ "bankName" \in DOMAIN valData /\ valData.bankName = << >>
  /\ "accountType" \notin DOMAIN valData
  /\ "routingNumber" \in DOMAIN valData /\ valData.routingNumber = << "!" >>
  /\ valRet.error = "Missing required fields"
  /\ Len(valRet.fields) = 2

\* ------------------------------------------------------------------------
\* The DEFAULT field set through POST /bank-accounts (SpecRoutes)
\* ------------------------------------------------------------------------
\* the body names a country without a schema entry and has a value for every
\* required field of the DEFAULT entry
SuppliesDefaultFields(body) ==
  /\ "country" \in DOMAIN body
  /\ body.country \notin SchemaCountries
  /\ \A i \in 1..Len(BANK_ACCOUNT_FIELDS["DEFAULT"].required) :
       LET f == BANK_ACCOUNT_FIELDS["DEFAULT"].required[i]
       IN f # "country" => HasValue(body, f)

\* C22: a POST /bank-accounts request for a country without a schema entry
\* that supplies accountHolderName, accountNumber, bankName and country
\* passes validation and creates the account
C22_DefaultFieldsAccepted ==
  (req.kind = "POST" /\ SuppliesDefaultFields(req.body)) =>
    /\ resp.status = 200
    /\ Len(resp.accounts) = 1
    /\ \E i \in 1..Len(bankAccountsFile) :
         /\ bankAccountsFile[i].id = resp.accounts[1].id
         /\ bankAccountsFile[i].country = req.body.country

\* ------------------------------------------------------------------------
\* Properties of the DocumentStore users (SpecMongoUsers)
\* ------------------------------------------------------------------------
\* the stored document with this id (ids are unique)
MongoDoc(id) == mongoUsers[CHOOSE i \in 1..Len(mongoUsers) : mongoUsers[i].id = id]

C24_PublishedHasPublishedAt ==
  /\ (evReq.kind = "POST" /\ evResp.status = 201) =>
        evResp.event[1].status = "draft"
  /\ \A i \in 1..Len(eventDocs) :
        eventDocs[i].status = "published" => "publishedAt" \in DOMAIN eventDocs[i]

\* the stored event with this id before the last request, 0 when none
PrevEventIndex(id) == FindIndex(prevEventDocs, LAMBDA e : e.id = id)

\* C25: a PUT, publish or DELETE request by a user who is not the organizer
\* of the event gets 404 and leaves the collection as it was, and no PUT
\* or publish request changes the id or the organizerId of an event
C25_OnlyOrganizerNoIdentityChange ==
  evReq.kind \in { "PUT", "PUBLISH", "DELETE" } =>
    LET idx == PrevEventIndex(evReq.id) IN
    /\ (idx = 0 \/ prevEventDocs[idx].organizerId # evReq.user) =>
          /\ evResp.status = 404
          /\ eventDocs = prevEventDocs
    /\ evReq.kind # "DELETE" =>
          /\ Len(eventDocs) = Len(prevEventDocs)
          /\ \A i \in 1..Len(prevEventDocs) :
                /\ eventDocs[i].id = prevEventDocs[i].id
                /\ eventDocs[i].organizerId = prevEventDocs[i].organizerId

\* ------------------------------------------------------------------------
\* Properties of createUser and updateUser on both stores (SpecUserStores)
\* ------------------------------------------------------------------------
\* C26: the user returned by a successful createUser or updateUser, of the
\* FileStore and of the DocumentStore, has no password key, also when the
\* patch sets password, while the stored record has one, the one of the
\* patch when the patch sets it
C26_ReturnedUserWithoutPassword ==
  /\ (pc[1] = "done" /\ ret[1].success) =>
       LET idx == IndexOfUser(usersFile, IF call[1].op = "createUser"
                                         THEN ret[1].user.id ELSE call[1].id)
       IN /\ "password" \notin DOMAIN ret[1].user
          /\ idx # 0
          /\ "password" \in DOMAIN usersFile[idx]
          /\ Without(usersFile[idx], { "password" }) = ret[1].user
          /\ (call[1].op = "updateUser" /\ "password" \in DOMAIN call[1].updates)
               => usersFile[idx].password = call[1].updates.password
  /\ \A p \in Procs :
       (mongoPc[p] = "done" /\ mongoRet[p].success) =>
          /\ "password" \notin DOMAIN mongoRet[p].user
          /\ "password" \in DOMAIN MongoDoc(mongoRet[p].user.id)
          /\ (mongoCall[p].op = "updateUser"
               /\ "password" \in DOMAIN mongoCall[p].updates
               /\ mongoLog[Len(mongoLog)].slot = p)
               => MongoDoc(mongoCall[p].id).password = mongoCall[p].updates.password

\* C26 witness: a DocumentStore updateUser whose patch sets password
\* returned success and the stored document carries the new password
C26_Witness_PasswordPatch ==
  \E p \in Procs :
    /\ mongoPc[p] = "done"
    /\ mongoCall[p].op = "updateUser"
    /\ mongoRet[p].success
    /\ "password" \in DOMAIN mongoCall[p].updates
    /\ MongoDoc(mongoCall[p].id).password = << "q" >>
    /\ MongoDoc(mongoCall[p].id).password # << "p" >>

\* ------------------------------------------------------------------------
\* Payouts stay pending (SpecPayout)
\* ------------------------------------------------------------------------
\* C27: every stored payout has status pending; a successful initiatePayout
\* leaves the available balance of the user as it was, and the same request
\* issued again succeeds
C27_PayoutLeavesBalance ==
  /\ \A i \in 1..Len(payoutsFile) : payoutsFile[i].status = "pending"
  /\ (bankCall.op = "initiatePayout" /\ bankRet.success) =>
       /\ getFinancialSummary(payoutsFile, bankCall.userId).availableBalance
            = getFinancialSummary(prevPayouts, bankCall.userId).availableBalance
       /\ initiatePayout(payoutsFile, bankAccountsFile, nextBankId,
                         bankCall.userId, bankCall.id, bankCall.amount).ret.success

\* C27 witness: the whole balance was paid out a second time to the same
\* user
C27_Witness_WholeBalanceTwice ==
  /\ bankCall.op = "initiatePayout" /\ bankRet.success
  /\ bankCall.amount = OrderTotalOne + OrderTotalTwo
  /\ \E i \in 1..Len(prevPayouts) :
       /\ prevPayouts[i].userId = bankCall.userId
       /\ prevPayouts[i].amount = bankCall.amount

\* ------------------------------------------------------------------------
\* init() against store calls (SpecInitRace)
\* ------------------------------------------------------------------------
\* C28: every user stored by a createUser call that returned success is
\* in users.json, wherever init is
C28_InitKeepsCreatedUsers ==
  \A id \in created : IndexOfUser(usersFile, id) # 0

\* ------------------------------------------------------------------------
\* likes (SpecLikes)
\* ------------------------------------------------------------------------
Likers(eventId) == { u \in UserNames : ArrayIncludes(likedEvents[u], eventId) }

NoLikeInFlight == \A p \in Procs : likePc[p] \in {"idle", "done"}

\* no likedEvents list holds an event twice
NoDuplicateLikes ==
  \A u \in UserNames : \A i, j \in 1..Len(likedEvents[u]) :
    likedEvents[u][i] = likedEvents[u][j] => i = j

\* C29: once every like and unlike request has answered, each event's
\* likeCount is the number of users whose likedEvents holds the event, and
\* no likedEvents list holds an event twice
C29_LikeCountMatchesLikers ==
  NoLikeInFlight =>
    /\ \A e \in LikeEvents : likeCount[e] = Cardinality(Likers(e))
    /\ NoDuplicateLikes

\* ------------------------------------------------------------------------
\* required fields of stored accounts (SpecRoutes)
\* ------------------------------------------------------------------------
\* the account holds a non-empty value for the field
StoresValue(account, field) ==
  /\ field \in DOMAIN account
  /\ IF field = "country" THEN account.country # ""
     ELSE account[field] # << >>

\* C30: every active stored bank account has a non-empty value for every
\* field that the schema of its country requires
C30_ActiveAccountsHaveRequiredFields ==
  \A i \in 1..Len(bankAccountsFile) :
    LET account == bankAccountsFile[i]
        required == FieldsOf(account.country).required
    IN account.isActive =>
         \A k \in 1..Len(required) : StoresValue(account, required[k])

====
